---- MODULE Spec2Model ----
(***************************************************************************)
(* A model of the .NET test visualizer: the CamelCase scanner              *)
(* (camelcase.Split), the sentence formatter (words.ToSentence), the name  *)
(* decoder (friendlyName / groups), the hierarchy builder (groupTests),    *)
(* the loader (xunit.Load), the helper packages slices and assert, and the *)
(* command line (FindNamed, main).                                         *)
(*                                                                         *)
(* A Go string is a sequence of bytes (0..255); Go's 0-based position p    *)
(* is element p+1 of the sequence.                                         *)
(***************************************************************************)
EXTENDS Integers, Sequences, FiniteSets, TLC

VARIABLES
    NoSplit,      \* camelcase.NoSplit: the words Split should not split
    NoTransform,  \* words.NoTransform: the words ToSentence keeps verbatim
    v,            \* Split's argument
    vRdr,         \* Split's reader: [input, pos, rdRune, panicked]
    retVal,       \* Split's result so far
    sIdxs,        \* history: the position at which each readWord call started
    pc,           \* where Split is: "call", "scan", "done"
    ws,           \* ToSentence's argument
    sentence,     \* ToSentence's result
    wpc,          \* where ToSentence is: "call", "done"
    t,            \* the test uniqueTraits decodes: [Name, Result, Time, Traits]
    tCase,        \* the TestCase made of it: [Name, Result, Time, groups]
    dpc,          \* where the decoding is: "call", "done"
    dPanic,       \* the decoding has panicked: an index or slice out of range
    assembly,     \* the assembly groupTests is called on: [Collections]
    testMap,      \* assembly.testMap, a Go map: [isNil, m], m: trait label -> TestCases
    traits,       \* groupTests' traits: the slice uniqueTraits returned
    nodes,        \* the TestGroups allocated: a *TestGroup is an index into it
    resultSet,    \* groupTests' resultSet: the root *TestGroups
    idx,          \* groupTests' outer loop index
    tcIdx,        \* the index of the inner loop over testMap[trait]
    cGroup,       \* groupTests' cGroup: the *TestGroup tests are attached to
    gpc,          \* where groupTests is: "call", "trait", "tests", "done"
    gRet,         \* what groupTests returned: a slice of *TestGroups
    rd,           \* Load's rdr: what io.ReadAll and xml.Unmarshal make of it
    data,         \* Load's data: the result unmarshal returned
    err,          \* Load's err: the error unmarshal returned
    testRun,      \* readResult's testRun
    asmMaps,      \* history: the testMap of each assembly readResult went over
    loadRet,      \* what Load returned: [run, err]
    lpc,          \* where Load is: "call", "unmarshalled", "assemblies",
                  \* "groupTests", "done"
    s1,           \* slices.Equal's s1, and the s of Contains and ContainsFn
    s2,           \* slices.Equal's s2
    sWant,        \* the want of Contains and ContainsFn
    equalRet,     \* what Equal returned: <<>> before it has, <<b>> after
    containsRet,  \* what Contains returned: <<>> before it has, <<b>> after
    containsFnRet,\* what ContainsFn returned: <<>> before it has, <<b>> after
    sCmp,         \* the cmpFn of ContainsFn, by name
    aFn,          \* the assertion the test calls: "Nil", "NotNil", "Equal",
                  \* "EqualS", "EqualFn"
    aGot,         \* the got of the assertion
    aWant,        \* the want of the assertion
    aCmp,         \* the cmpFn of EqualFn, by name
    aName,        \* the name of the assertion
    aMsg,         \* the msg of the assertion: the variadic []any
    tb,           \* the testing.TB: [fatals, panicked], fatals the calls of
                  \* t.Fatalf, each [format, args]
    apc,          \* where the assertion is: "call", "done"
    args,         \* os.Args[1:]
    lFiles,       \* main's lFiles: what FindNamed returned
    fnErr,        \* main's err of FindNamed
    fIdx,         \* main's loop over lFiles: the files gone through
    openErr,      \* main's err of os.Open on the current file
    stdout,       \* what main has printed: a sequence of blocks
    mpc           \* where main is: "call", "parsed", "load", "exit", "done"

cfgVars == <<NoSplit, NoTransform>>
splitVars == <<v, vRdr, retVal, sIdxs, pc>>
wordsVars == <<ws, sentence, wpc>>
decodeVars == <<t, tCase, dpc, dPanic>>
treeVars == <<assembly, testMap, traits, nodes, resultSet, idx, tcIdx, cGroup, gpc, gRet>>
loadVars == <<rd, data, err, testRun, asmMaps, loadRet, lpc>>
slicesVars == <<s1, s2, sWant, sCmp, equalRet, containsRet, containsFnRet>>
assertVars == <<aFn, aGot, aWant, aCmp, aName, aMsg, tb, apc>>
mainVars == <<args, lFiles, fnErr, fIdx, openErr, stdout, mpc>>
libVars == <<slicesVars, assertVars, mainVars>>
vars == <<cfgVars, splitVars, wordsVars, decodeVars, treeVars, loadVars, libVars>>

----------------------------------------------------------------------------
(* Strings as byte sequences.                                              *)

\* The letters, the digits and the punctuation the names of the program use.
Upper == "ABCDEFGHIJKLMNOPQRSTUVWXYZ"
Lower == "abcdefghijklmnopqrstuvwxyz"
Digits == "0123456789"
Punct == [c \in {" ", "+", "-", ".", "/"} |->
             CASE c = " " -> 32 [] c = "+" -> 43 [] c = "-" -> 45 [] c = "." -> 46 [] c = "/" -> 47]

\* The byte of a one-character string.
CodeOf(c) ==
    IF c \in DOMAIN Punct THEN Punct[c]
    ELSE IF \E k \in 1..26 : SubSeq(Upper, k, k) = c
         THEN 64 + (CHOOSE k \in 1..26 : SubSeq(Upper, k, k) = c)
    ELSE IF \E k \in 1..26 : SubSeq(Lower, k, k) = c
         THEN 96 + (CHOOSE k \in 1..26 : SubSeq(Lower, k, k) = c)
    ELSE 47 + (CHOOSE k \in 1..10 : SubSeq(Digits, k, k) = c)

\* The bytes of a string literal.
Str(s) == [i \in 1..Len(s) |-> CodeOf(SubSeq(s, i, i))]

\* s[lo:hi] of Go: the bytes at the 0-based positions lo .. hi-1.
Slice(s, lo, hi) == SubSeq(s, lo + 1, hi)

\* All the sequences over alphabet of a length up to n.
RECURSIVE SeqsUpTo(_, _)
SeqsUpTo(alphabet, n) ==
    IF n = 0 THEN {<<>>}
    ELSE LET shorter == SeqsUpTo(alphabet, n - 1)
         IN  shorter \cup {Append(s, c) : s \in shorter, c \in alphabet}

\* The concatenation of a sequence of strings.
RECURSIVE Concat(_)
Concat(ss) == IF ss = <<>> THEN <<>> ELSE Head(ss) \o Concat(Tail(ss))

----------------------------------------------------------------------------
(* The standard library functions the program calls.                       *)

\* unicode.IsUpper on a rune of U+0000..U+00FF: A-Z, and the Latin-1 capitals
\* U+00C0..U+00DE without the multiplication sign U+00D7.
IsUpper(r) == (65 <= r /\ r <= 90) \/ (192 <= r /\ r <= 222 /\ r # 215)

\* A UTF-8 continuation byte.
IsCont(b) == 128 <= b /\ b <= 191

\* The length of the UTF-8 encoding that starts at position p (1-based) of s,
\* or 0 when the bytes there are not a valid encoding.
RuneLen(s, p) ==
    LET b == s[p]
        n == Len(s)
        c1 == IF p + 1 <= n THEN s[p + 1] ELSE 0
        c2 == IF p + 2 <= n THEN s[p + 2] ELSE 0
        c3 == IF p + 3 <= n THEN s[p + 3] ELSE 0
    IN  IF b < 128 THEN 1
        ELSE IF 194 <= b /\ b <= 223 THEN (IF IsCont(c1) THEN 2 ELSE 0)
        ELSE IF b = 224 THEN (IF 160 <= c1 /\ c1 <= 191 /\ IsCont(c2) THEN 3 ELSE 0)
        ELSE IF b = 237 THEN (IF 128 <= c1 /\ c1 <= 159 /\ IsCont(c2) THEN 3 ELSE 0)
        ELSE IF 225 <= b /\ b <= 239 THEN (IF IsCont(c1) /\ IsCont(c2) THEN 3 ELSE 0)
        ELSE IF b = 240 THEN (IF 144 <= c1 /\ c1 <= 191 /\ IsCont(c2) /\ IsCont(c3) THEN 4 ELSE 0)
        ELSE IF 241 <= b /\ b <= 243 THEN (IF IsCont(c1) /\ IsCont(c2) /\ IsCont(c3) THEN 4 ELSE 0)
        ELSE IF b = 244 THEN (IF 128 <= c1 /\ c1 <= 143 /\ IsCont(c2) /\ IsCont(c3) THEN 4 ELSE 0)
        ELSE 0

\* utf8.ValidString
RECURSIVE ValidFrom(_, _)
ValidFrom(s, p) ==
    IF p > Len(s) THEN TRUE
    ELSE LET w == RuneLen(s, p) IN IF w = 0 THEN FALSE ELSE ValidFrom(s, p + w)

ValidString(s) == ValidFrom(s, 1)

\* strings.HasPrefix
HasPrefix(s, prefix) == Len(s) >= Len(prefix) /\ SubSeq(s, 1, Len(prefix)) = prefix

\* strings.ToLower, for strings whose runes lie in U+0000..U+00FF: an ASCII
\* string is mapped byte by byte; otherwise the string is decoded rune by rune,
\* a Latin-1 capital is mapped to its small letter and every byte that is not
\* part of a valid encoding is replaced by U+FFFD (EF BF BD).
LowerByte(b) == IF 65 <= b /\ b <= 90 THEN b + 32 ELSE b

RECURSIVE LowerFrom(_, _)
LowerFrom(s, p) ==
    IF p > Len(s) THEN <<>>
    ELSE LET w == RuneLen(s, p)
         IN  IF w = 0 THEN <<239, 191, 189>> \o LowerFrom(s, p + 1)
             ELSE IF w = 1 THEN <<LowerByte(s[p])>> \o LowerFrom(s, p + 1)
             ELSE IF s[p] = 195 /\ IsUpper(s[p + 1] + 64)
                  THEN <<195, s[p + 1] + 32>> \o LowerFrom(s, p + 2)
             ELSE SubSeq(s, p, p + w - 1) \o LowerFrom(s, p + w)

ToLower(s) ==
    IF \A i \in 1..Len(s) : s[i] < 128
    THEN [i \in 1..Len(s) |-> LowerByte(s[i])]
    ELSE LowerFrom(s, 1)

\* strings.Index: the 0-based position of the first occurrence of substr in
\* s, or -1.
Index(s, substr) ==
    LET at == { o \in 0..(Len(s) - Len(substr)) : SubSeq(s, o + 1, o + Len(substr)) = substr }
    IN  IF at = {} THEN -1 ELSE CHOOSE o \in at : \A o2 \in at : o <= o2

\* strings.LastIndex: the 0-based position of the last occurrence, or -1.
LastIndex(s, substr) ==
    LET at == { o \in 0..(Len(s) - Len(substr)) : SubSeq(s, o + 1, o + Len(substr)) = substr }
    IN  IF at = {} THEN -1 ELSE CHOOSE o \in at : \A o2 \in at : o >= o2

\* strings.Contains
StrContains(s, substr) == Index(s, substr) >= 0

\* strings.Split, for a separator that is not empty.
RECURSIVE StrSplit(_, _)
StrSplit(s, sep) ==
    LET i == Index(s, sep)
    IN  IF i < 0 THEN <<s>>
        ELSE <<SubSeq(s, 1, i)>> \o StrSplit(SubSeq(s, i + Len(sep) + 1, Len(s)), sep)

\* strings.Join
RECURSIVE Join(_, _)
Join(elems, sep) ==
    IF Len(elems) = 0 THEN <<>>
    ELSE IF Len(elems) = 1 THEN elems[1]
    ELSE elems[1] \o sep \o Join(Tail(elems), sep)

----------------------------------------------------------------------------
(* Package slices.  A slice is [isNil, elems]: nil or not, and its         *)
(* elements; len is Len of elems.                                          *)

\* The loop of slices.Equal, from index i on.
RECURSIVE equalLoop(_, _, _)
equalLoop(a, b, i) ==
    IF i > Len(a) THEN TRUE
    ELSE IF a[i] # b[i] THEN FALSE
    ELSE equalLoop(a, b, i + 1)

\* An Equal that compares the slice headers as well: nil is not empty.
EqualStrict(a, b) == a = b

\* slices.Equal
Equal(a, b) ==
    IF Len(a.elems) # Len(b.elems) THEN FALSE
    ELSE equalLoop(a.elems, b.elems, 1)

\* slices.Contains
Contains(s, want) == \E i \in 1..Len(s) : s[i] = want

\* A ContainsFn that hands want to cmpFn first and the element second.
ContainsFnSwapped(s, want, cmpFn) == \E i \in 1..Len(s) : cmpFn[want, s[i]]

\* slices.ContainsFn; cmpFn is a function of the element and want.
ContainsFn(s, want, cmpFn) == \E i \in 1..Len(s) : cmpFn[s[i], want]

----------------------------------------------------------------------------
(* Package camelcase.  A reader is [input, pos, rdRune, panicked]; panicked *)
(* records an index or slice expression out of range, at which Go panics.  *)

\* The reader Split constructs: &rdr{input: v}.
NewRdr(input) == [input |-> input, pos |-> 0, rdRune |-> 0, panicked |-> FALSE]

\* func (r *rdr) readRune()
readRune(r) ==
    IF r.pos > Len(r.input)
    THEN [r EXCEPT !.rdRune = 0, !.pos = r.pos + 1]
    ELSE IF r.pos = Len(r.input)
    THEN [r EXCEPT !.panicked = TRUE, !.pos = r.pos + 1]
    ELSE [r EXCEPT !.rdRune = r.input[r.pos + 1], !.pos = r.pos + 1]

\* An unreadRune that goes back two positions.
unreadRuneTwice(r) == [r EXCEPT !.pos = r.pos - 2]

\* func (r *rdr) unreadRune()
unreadRune(r) == [r EXCEPT !.pos = r.pos - 1]

\* func (r *rdr) peekRune() rune; callers guard it with r.pos < len(r.input).
peekRune(r) == r.input[r.pos + 1]

\* The comparison isNoSplitWord hands to ContainsFn.
noSplitCmp == [got \in Seq(Nat), want \in Seq(Nat) |-> HasPrefix(got, want)]

\* func (r *rdr) isNoSplitWord(sIdx int) bool, under the configuration noSplit.
isNoSplitWord(noSplit, r, sIdx) ==
    ContainsFn(noSplit, Slice(r.input, sIdx, r.pos + 1), noSplitCmp)

\* The loop of readWord's branch for a word whose second character is uppercase.
RECURSIVE upperLoop(_, _, _)
upperLoop(noSplit, r, sIdx) ==
    IF r.pos < Len(r.input) /\ (IsUpper(peekRune(r)) \/ isNoSplitWord(noSplit, r, sIdx))
    THEN upperLoop(noSplit, readRune(r), sIdx)
    ELSE r

\* The loop of readWord's other branch.
RECURSIVE lowerLoop(_, _, _)
lowerLoop(noSplit, r, sIdx) ==
    IF r.pos < Len(r.input) /\ (~IsUpper(peekRune(r)) \/ isNoSplitWord(noSplit, r, sIdx))
    THEN lowerLoop(noSplit, readRune(r), sIdx)
    ELSE r

\* A readWord that does not back up.
backUpNever(r) == r

\* The one-position back-up that ends readWord's first branch.
backUp(r) == IF r.pos < Len(r.input) THEN unreadRune(r) ELSE r

\* func (r *rdr) readWord() string: the reader after the call; the word
\* returned is r.input[sIdx:r.pos] for the sIdx at which the call started.
readWord(noSplit, r) ==
    LET sIdx == r.pos
        r1 == readRune(r)
    IN  IF r1.pos < Len(r1.input) /\ IsUpper(peekRune(r1))
        THEN backUp(upperLoop(noSplit, r1, sIdx))
        ELSE lowerLoop(noSplit, r1, sIdx)

\* A readWord that takes sIdx after its first readRune.
wordOfLateStart(before, after) == Slice(after.input, before.pos + 1, after.pos)

\* The word a readWord call returns, given the reader before and after it.
wordOf(before, after) == Slice(after.input, before.pos, after.pos)

\* The loop of Split: one readWord per iteration while vRdr.pos < len(v).
RECURSIVE splitLoop(_, _, _)
splitLoop(noSplit, r, acc) ==
    IF r.pos < Len(r.input) /\ ~r.panicked
    THEN LET r2 == readWord(noSplit, r)
         IN  splitLoop(noSplit, r2, Append(acc, wordOf(r, r2)))
    ELSE acc

\* func Split(v string) []string, under the configuration noSplit.
Split(noSplit, s) ==
    IF ~ValidString(s) \/ Len(s) = 0
    THEN <<s>>
    ELSE splitLoop(noSplit, NewRdr(s), <<>>)

----------------------------------------------------------------------------
(* Package words.                                                          *)

\* A ToSentence that keeps every word that is a prefix of a NoTransform entry.
sentenceWordPrefix(noTransform, wIdx, word) ==
    IF wIdx = 0 THEN word
    ELSE IF ContainsFn(noTransform, word, noSplitCmp) THEN word
    ELSE ToLower(word)

\* The word ToSentence emits for the word at index wIdx (0-based, the loop's idx) of its argument.
sentenceWord(noTransform, wIdx, word) ==
    IF wIdx = 0 THEN word
    ELSE IF Contains(noTransform, word) THEN word
    ELSE ToLower(word)

\* A ToSentence that ends every word with a space.
ToSentenceTrailing(noTransform, words) ==
    Concat([i \in 1..Len(words) |-> sentenceWord(noTransform, i - 1, words[i]) \o <<32>>])

\* func ToSentence(v []string) string, under the configuration noTransform.
ToSentence(noTransform, words) ==
    Join([i \in 1..Len(words) |-> sentenceWord(noTransform, i - 1, words[i])], <<32>>)

----------------------------------------------------------------------------
(* Package xunit: the name decoder.                                        *)

\* func (t *test) hasDisplayName() bool
hasDisplayName(tst) == StrContains(tst.Name, <<32>>)

\* An isNested that does not look for a plus.
isNestedNoPlus(tst) == ~hasDisplayName(tst)

\* An isNested that does not look for a display name.
isNestedAnyPlus(tst) == StrContains(tst.Name, <<43>>)

\* func (t *test) isNested() bool
isNested(tst) == ~hasDisplayName(tst) /\ StrContains(tst.Name, <<43>>)

\* The loop of friendlyName and of groups over the words Split returned: the
\* first word as it is, every other word in lower case.
lowerRest(words) == [i \in 1..Len(words) |-> IF i - 1 = 0 THEN words[i] ELSE ToLower(words[i])]

\* The readable form of an identifier: Split, lowerRest, joined by spaces.
readable(noSplit, ident) == Join(lowerRest(Split(noSplit, ident)), <<32>>)

\* func (t *test) friendlyName() string
friendlyName(noSplit, tst) ==
    IF hasDisplayName(tst)
    THEN tst.Name
    ELSE readable(noSplit, Slice(tst.Name, LastIndex(tst.Name, <<46>>) + 1, Len(tst.Name)))

\* A groups that keeps the whole of the last chunk.
groupNamePartsWholeLast(tst) ==
    LET groupName == StrSplit(tst.Name, <<43>>)
        n == Len(groupName)
    IN  <<Slice(groupName[1], LastIndex(groupName[1], <<46>>) + 1, Len(groupName[1]))>>
        \o SubSeq(groupName, 2, n - 1)
        \o <<groupName[n]>>

\* The path elements groups builds for a nested test, before they are made
\* readable: groupNameParts.
groupNameParts(tst) ==
    LET groupName == StrSplit(tst.Name, <<43>>)
        n == Len(groupName)
    IN  <<Slice(groupName[1], LastIndex(groupName[1], <<46>>) + 1, Len(groupName[1]))>>
        \o SubSeq(groupName, 2, n - 1)
        \o <<StrSplit(groupName[n], <<46>>)[1]>>

\* func (t *test) groups() []string
groups(noSplit, tst) ==
    IF ~isNested(tst) THEN <<>>
    ELSE LET parts == groupNameParts(tst)
         IN  [i \in 1..Len(parts) |-> readable(noSplit, parts[i])]

\* Go's check of s[lo:hi], and of s[i].
SliceInRange(s, lo, hi) == 0 <= lo /\ lo <= hi /\ hi <= Len(s)
IndexInRange(s, i) == 0 <= i /\ i < Len(s)

\* The reader when the loop of Split ends.
RECURSIVE splitRdr(_, _)
splitRdr(noSplit, r) ==
    IF r.pos < Len(r.input) /\ ~r.panicked
    THEN splitRdr(noSplit, readWord(noSplit, r))
    ELSE r

\* camelcase.Split(s) returns: no read of its reader is out of range.
SplitInRange(noSplit, s) ==
    (ValidString(s) /\ Len(s) # 0) => ~splitRdr(noSplit, NewRdr(s)).panicked

\* friendlyName returns: its slice of t.Name is in range and Split returns.
friendlyNameInRange(noSplit, tst) ==
    hasDisplayName(tst) \/
    LET lo == LastIndex(tst.Name, <<46>>) + 1
    IN  /\ SliceInRange(tst.Name, lo, Len(tst.Name))
        /\ SplitInRange(noSplit, Slice(tst.Name, lo, Len(tst.Name)))

\* groups returns: groupName[0], groupName[0][...:], groupName[1:len-1],
\* groupName[len-1] and strings.Split(...)[0] are in range and every Split
\* returns.
groupsInRange(noSplit, tst) ==
    ~isNested(tst) \/
    LET groupName == StrSplit(tst.Name, <<43>>)
        n == Len(groupName)
    IN  /\ IndexInRange(groupName, 0)
        /\ SliceInRange(groupName[1], LastIndex(groupName[1], <<46>>) + 1, Len(groupName[1]))
        /\ SliceInRange(groupName, 1, n - 1)
        /\ IndexInRange(groupName, n - 1)
        /\ IndexInRange(StrSplit(groupName[n], <<46>>), 0)
        /\ \A i \in 1..Len(groupNameParts(tst)) : SplitInRange(noSplit, groupNameParts(tst)[i])

\* The TestCase uniqueTraits makes of a test.
newTestCase(noSplit, tst) ==
    [Name |-> friendlyName(noSplit, tst), groups |-> groups(noSplit, tst),
     Result |-> tst.Result, Time |-> tst.Time]

----------------------------------------------------------------------------
(* Package xunit: the hierarchy builder.  A TestGroup is [Name, Tests,     *)
(* Groups] with Groups a sequence of indices into the allocated groups.    *)

\* A friendlyName that makes the name and the value of the trait readable, as
\* the name of a test is made.
traitFriendlyNameReadable(tr) ==
    readable(<<>>, tr.Name) \o Str(" - ") \o readable(<<>>, tr.Value)

\* func (t *trait) friendlyName() string
traitFriendlyName(tr) == tr.Name \o Str(" - ") \o tr.Value

\* func (assembly *assembly) hasTests() bool
hasTests(asm) == \E c \in 1..Len(asm.Collections) : Len(asm.Collections[c].Tests) > 0

\* A Go map: nil (var m map[K]V, never made), or made with its entries m.
\* The entries are a function of the keys: a map holds no order among them.
NilMap == [isNil |-> TRUE, m |-> <<>>]
MakeMap == [isNil |-> FALSE, m |-> <<>>]

\* assembly.testMap[key] = append(assembly.testMap[key], tCase), on the map
\* uniqueTraits has made.
mapAppend(tm, key, tc) ==
    IF key \in DOMAIN tm.m
    THEN [tm EXCEPT !.m[key] = Append(@, tc)]
    ELSE [tm EXCEPT !.m = @ @@ (key :> <<tc>>)]

\* The loop of uniqueTraits over the traits of one test.
RECURSIVE addTraits(_, _, _, _)
addTraits(tm, trs, k, tc) ==
    IF k > Len(trs) THEN tm
    ELSE addTraits(mapAppend(tm, traitFriendlyName(trs[k]), tc), trs, k + 1, tc)

\* A loop body that files a test without traits under no label.
addTestTraitsOnly(noSplit, tm, tst) ==
    addTraits(tm, tst.Traits, 1, newTestCase(noSplit, tst))

\* The body of uniqueTraits' loop for one test.
addTest(noSplit, tm, tst) ==
    LET tc == newTestCase(noSplit, tst)
        tm1 == IF Len(tst.Traits) = 0 THEN mapAppend(tm, <<>>, tc) ELSE tm
    IN  addTraits(tm1, tst.Traits, 1, tc)

\* The loop of uniqueTraits over the tests of one collection.
RECURSIVE addTests(_, _, _, _)
addTests(noSplit, tm, tests, k) ==
    IF k > Len(tests) THEN tm
    ELSE addTests(noSplit, addTest(noSplit, tm, tests[k]), tests, k + 1)

\* The loop of uniqueTraits over the collections.
RECURSIVE addCollections(_, _, _, _)
addCollections(noSplit, tm, cols, k) ==
    IF k > Len(cols) THEN tm
    ELSE addCollections(noSplit, addTests(noSplit, tm, cols[k].Tests, 1), cols, k + 1)

\* The sequences that list every element of a set once.
RECURSIVE Orders(_)
Orders(S) ==
    IF S = {} THEN {<<>>}
    ELSE UNION { { <<x>> \o rest : rest \in Orders(S \ {x}) } : x \in S }

\* maps.Keys(assembly.testMap), the call that ends uniqueTraits: the slices
\* it can return.  The package's code is not among the files; what the call
\* is handed is a built-in map[string][]TestCase, which holds each key once
\* and no order among the keys, so the result lists every key of the map
\* once, in an order that nothing in the files settles.
Keys(tm) == Orders(DOMAIN tm.m)

\* func (assembly *assembly) uniqueTraits() []string: the map it makes and
\* fills, and the slices of keys it can return.
uniqueTraits(noSplit, asm) ==
    LET tm == addCollections(noSplit, MakeMap, asm.Collections, 1)
    IN  [testMap |-> tm, keys |-> Keys(tm)]

\* The TestCase groupTests attaches: TestCase{Name, Result, Time}.
attached(tc) == [Name |-> tc.Name, Result |-> tc.Result, Time |-> tc.Time]

\* A search that finds no group.
findGroupNever(ns, cur, name) == 0

\* The search of cGroup.Groups for a group of the given name: the first such
\* group, or 0 (nil) when there is none.
findGroup(ns, cur, name) ==
    LET gs == ns[cur].Groups
        hits == { i \in 1..Len(gs) : ns[gs[i]].Name = name }
    IN  IF hits = {} THEN 0 ELSE gs[CHOOSE i \in hits : \A j \in hits : i <= j]

\* A walk that puts a new group before the groups its parent already has.
RECURSIVE walkGroupsPrepend(_, _, _, _)
walkGroupsPrepend(ns, cur, tc, k) ==
    IF k > Len(tc.groups) THEN [nodes |-> ns, cGroup |-> cur]
    ELSE LET nn == tc.groups[k]
             found == findGroup(ns, cur, nn)
             sGroup == IF found = 0 THEN Len(ns) + 1 ELSE found
             ns1 == IF found = 0
                    THEN Append([ns EXCEPT ![cur].Groups = <<sGroup>> \o @],
                                [Name |-> nn, Tests |-> <<>>, Groups |-> <<>>])
                    ELSE ns
             ns2 == IF k - 1 = Len(tc.groups) - 1
                    THEN [ns1 EXCEPT ![sGroup].Tests = Append(@, attached(tc))]
                    ELSE ns1
         IN  walkGroupsPrepend(ns2, sGroup, tc, k + 1)

\* The loop of groupTests over tc.groups, from its index k (1-based) on: the
\* groups allocated and cGroup when it ends.
RECURSIVE walkGroups(_, _, _, _)
walkGroups(ns, cur, tc, k) ==
    IF k > Len(tc.groups) THEN [nodes |-> ns, cGroup |-> cur]
    ELSE LET nn == tc.groups[k]
             found == findGroup(ns, cur, nn)
             sGroup == IF found = 0 THEN Len(ns) + 1 ELSE found
             ns1 == IF found = 0
                    THEN Append([ns EXCEPT ![cur].Groups = Append(@, sGroup)],
                                [Name |-> nn, Tests |-> <<>>, Groups |-> <<>>])
                    ELSE ns
             ns2 == IF k - 1 = Len(tc.groups) - 1
                    THEN [ns1 EXCEPT ![sGroup].Tests = Append(@, attached(tc))]
                    ELSE ns1
         IN  walkGroups(ns2, sGroup, tc, k + 1)

\* A loop body that leaves cGroup where the walk along tc.groups ended.
insertTestNoReset(ns, cur, root, tc) ==
    IF Len(tc.groups) = 0
    THEN [nodes |-> [ns EXCEPT ![cur].Tests = Append(@, attached(tc))], cGroup |-> cur]
    ELSE walkGroups(ns, cur, tc, 1)

\* The body of groupTests' loop over assembly.testMap[trait] for one TestCase:
\* the groups allocated and cGroup after it; root is resultSet[idx].
insertTest(ns, cur, root, tc) ==
    IF Len(tc.groups) = 0
    THEN [nodes |-> [ns EXCEPT ![cur].Tests = Append(@, attached(tc))], cGroup |-> cur]
    ELSE [nodes |-> walkGroups(ns, cur, tc, 1).nodes, cGroup |-> root]

\* A Go slice: nil, or made (make, append) with its elements.
NilSlice == [isNil |-> TRUE, elems |-> <<>>]
MakeSlice == [isNil |-> FALSE, elems |-> <<>>]
AppendSlice(sl, x) == [isNil |-> FALSE, elems |-> Append(sl.elems, x)]

----------------------------------------------------------------------------
(* Package xunit: Load.                                                    *)

\* func (assembly *assembly) name() string: what follows the last slash, or
\* else the last backslash.
assemblyName(asm) ==
    IF StrContains(asm.FullName, <<47>>)
    THEN Slice(asm.FullName, LastIndex(asm.FullName, <<47>>) + 1, Len(asm.FullName))
    ELSE Slice(asm.FullName, LastIndex(asm.FullName, <<92>>) + 1, Len(asm.FullName))

\* var res result, and result{}.
ZeroResult ==
    [Computer |-> <<>>, User |-> <<>>, StartRTF |-> <<>>, FinishRTF |-> <<>>,
     Timestamp |-> <<>>, Assemblies |-> <<>>]

\* TestRun{}.
ZeroTestRun ==
    [Computer |-> <<>>, User |-> <<>>, StartTimeRTF |-> <<>>, EndTimeRTF |-> <<>>,
     Timestamp |-> <<>>, Assemblies |-> NilSlice]

\* An unmarshal that returns what was decoded and no error when
\* xml.Unmarshal fails.
unmarshalSwallow(r) ==
    IF r.readErr = "nil"
    THEN [res |-> r.decoded, err |-> "nil"]
    ELSE [res |-> ZeroResult, err |-> "nil"]

\* func unmarshal(rdr io.Reader) (result, error).  Of rdr, readErr is the
\* error of io.ReadAll, xmlErr the error of xml.Unmarshal on its bytes and
\* decoded what xml.Unmarshal has stored in res when it returns.
unmarshal(r) ==
    IF r.readErr = "nil"
    THEN IF r.xmlErr # "nil"
         THEN [res |-> ZeroResult, err |-> r.xmlErr]
         ELSE [res |-> r.decoded, err |-> "nil"]
    ELSE [res |-> ZeroResult, err |-> "nil"]

\* The head of readResult: the TestRun before its loop.
newTestRun(r) ==
    [Computer |-> r.Computer, User |-> r.User, StartTimeRTF |-> r.StartRTF,
     EndTimeRTF |-> r.FinishRTF, Timestamp |-> r.Timestamp, Assemblies |-> MakeSlice]

\* The Assembly readResult's loop makes of an assembly; testGroups is what
\* assembly.groupTests() returned and ns the groups it points into.
newAssembly(asm, testGroups, ns) ==
    [Name |-> assemblyName(asm), ErrorCount |-> asm.ErrorCount,
     PassedCount |-> asm.PassedCount, FailedCount |-> asm.FailedCount,
     NotRunCount |-> asm.NotRunCount, TotalCount |-> asm.Total,
     RunDate |-> asm.RunDate, RunTime |-> asm.RunTime, TimeRTF |-> asm.TimeRTF,
     Time |-> asm.Time, TestGroups |-> testGroups, nodes |-> ns]

----------------------------------------------------------------------------
(* The configurations and the inputs the model is checked on.              *)

\* The longest string the scanner is run on, beyond the samples.
MaxLen == 5

\* The most words ToSentence is given.
MaxWords == 3

\* The bytes the scanned strings are drawn from: A, B, b, and the two bytes of
\* the UTF-8 encoding of U+00C0 (C3 80), of which the first is an uppercase
\* letter when it is read as a rune of its own.
Alphabet == {65, 66, 98, 195, 128}

\* The configuration main sets.
MainNoSplit == <<Str("HostBuilder"), Str("DBSyncer"), Str("DbSynchronizer")>>
MainNoTransform == <<Str("DbSynchronizer"), Str("DBSyncer")>>

\* The configurations of NoSplit: the package's default (nil), main's, and
\* words over the alphabet shaped like main's.
NoSplitConfigs ==
    { <<>>, MainNoSplit, <<Str("AbB")>>, <<Str("ABb")>>, <<Str("bB"), Str("BAb")>> }

NoTransformConfigs == { <<>>, MainNoTransform, <<Str("AB"), Str("Ab")>> }

\* Inputs of the package's tests and inputs that meet main's configuration.
SampleInputs ==
    { Str("FullyQualifiedName"), Str("PDFLoader"), Str("HelloWorld"),
      Str("Bad") \o <<226, 226, 161>>,
      Str("XHostBuilderY"), Str("TestDBSyncer"), Str("XDBSyncer"), Str("aDbSynchronizerB") }

SplitInputs == SeqsUpTo(Alphabet, MaxLen) \cup SampleInputs

\* The words ToSentence is given.
SampleWords ==
    { <<>>, Str("A"), Str("AB"), Str("Ab"), Str("ABb"), Str("ab"), Str("Collection"),
      Str("DBSyncer"), Str("DBSync"), Str("dbsyncer"), Str("a b"), <<195, 128>> }

WordLists == SeqsUpTo(SampleWords, MaxWords)

\* The longest test name the decoder is run on, beyond the samples.
MaxNameLen == 5

\* The bytes the test names are drawn from: A, b, the dot, the plus, the space.
NameAlphabet == {65, 98, 46, 43, 32}

\* The names of the package's test, and names that meet main's configuration.
SampleNames ==
    { Str("A test with a display name."),
      Str("NS1.Class.SubClass.TestClass.TestMethod"),
      Str("NS1.Class.SubClass.TestClass+Method+Scenario+SubScenario.Result"),
      Str("NS1.Class.SubClass.TestClass+Method+Scenario2+SubScenario.Result"),
      Str("NS.HostBuilderTests+DBSyncer.RunsDBSyncer"),
      Str("A b+c.d") }

DecodeNames == SeqsUpTo(NameAlphabet, MaxNameLen) \cup SampleNames

\* The configurations the decoder is run under: none, main's, and one over
\* the alphabet of the names.
DecodeConfigs ==
    { <<(<<>>), (<<>>)>>, <<MainNoSplit, MainNoTransform>>, <<(<<>>), <<Str("Ab")>>>> }

\* A test of the given name.
TestNamed(name) == [Name |-> name, Result |-> "Pass", Time |-> 0, Traits |-> <<>>]

----------------------------------------------------------------------------
(* camelcase.Split as a state machine: the call, one readWord per step,    *)
(* the return.                                                             *)

InitSplit ==
    /\ NoSplit \in NoSplitConfigs
    /\ v \in SplitInputs
    /\ vRdr = NewRdr(<<>>)
    /\ retVal = <<>>
    /\ sIdxs = <<>>
    /\ pc = "call"

\* A Split that checks only for the empty string.
SplitCallUnchecked ==
    /\ pc = "call"
    /\ IF Len(v) = 0
       THEN /\ retVal' = <<v>>
            /\ pc' = "done"
            /\ UNCHANGED vRdr
       ELSE /\ vRdr' = NewRdr(v)
            /\ retVal' = <<>>
            /\ pc' = "scan"
    /\ UNCHANGED <<cfgVars, libVars, loadVars, v, sIdxs, wordsVars, decodeVars, treeVars>>

\* A Split whose reader goes on from the position of the reader before it.
SplitCallStalePos ==
    /\ pc = "call"
    /\ IF ~ValidString(v) \/ Len(v) = 0
       THEN /\ retVal' = <<v>>
            /\ pc' = "done"
            /\ UNCHANGED vRdr
       ELSE /\ vRdr' = [NewRdr(v) EXCEPT !.pos = vRdr.pos]
            /\ retVal' = <<>>
            /\ pc' = "scan"
    /\ UNCHANGED <<cfgVars, libVars, loadVars, v, sIdxs, wordsVars, decodeVars, treeVars>>

\* Split's guard: an invalid or empty string is returned as the only element.
SplitCall ==
    /\ pc = "call"
    /\ IF ~ValidString(v) \/ Len(v) = 0
       THEN /\ retVal' = <<v>>
            /\ pc' = "done"
            /\ UNCHANGED vRdr
       ELSE /\ vRdr' = NewRdr(v)
            /\ retVal' = <<>>
            /\ pc' = "scan"
    /\ UNCHANGED <<cfgVars, libVars, loadVars, v, sIdxs, wordsVars, decodeVars, treeVars>>

\* A loop of Split that goes on while vRdr.pos <= len(v): at the end of the
\* input the first readRune of readWord indexes out of range.
SplitReadWordPastEnd ==
    /\ pc = "scan"
    /\ vRdr.pos <= Len(v)
    /\ ~vRdr.panicked
    /\ IF vRdr.pos < Len(v)
       THEN /\ vRdr' = readWord(NoSplit, vRdr)
            /\ retVal' = Append(retVal, wordOf(vRdr, vRdr'))
            /\ sIdxs' = Append(sIdxs, vRdr.pos)
       ELSE /\ vRdr' = readRune(vRdr)
            /\ UNCHANGED <<retVal, sIdxs>>
    /\ UNCHANGED <<cfgVars, libVars, loadVars, v, pc, wordsVars, decodeVars, treeVars>>

\* One iteration of Split's loop.
SplitReadWord ==
    /\ pc = "scan"
    /\ vRdr.pos < Len(v)
    /\ ~vRdr.panicked
    /\ vRdr' = readWord(NoSplit, vRdr)
    /\ retVal' = Append(retVal, wordOf(vRdr, vRdr'))
    /\ sIdxs' = Append(sIdxs, vRdr.pos)
    /\ UNCHANGED <<cfgVars, libVars, loadVars, v, pc, wordsVars, decodeVars, treeVars>>

\* Split's loop ends and retVal is returned.
SplitReturn ==
    /\ pc = "scan"
    /\ ~(vRdr.pos < Len(v))
    /\ pc' = "done"
    /\ UNCHANGED <<cfgVars, libVars, loadVars, v, vRdr, retVal, sIdxs, wordsVars, decodeVars, treeVars>>

IdleSplit ==
    /\ v = <<>>
    /\ vRdr = NewRdr(<<>>)
    /\ retVal = <<>>
    /\ sIdxs = <<>>
    /\ pc = "idle"

----------------------------------------------------------------------------
(* words.ToSentence as a state machine: the call.                          *)

InitWords ==
    /\ NoTransform \in NoTransformConfigs
    /\ ws \in WordLists
    /\ sentence = <<>>
    /\ wpc = "call"

ToSentenceCall ==
    /\ wpc = "call"
    /\ sentence' = ToSentence(NoTransform, ws)
    /\ wpc' = "done"
    /\ UNCHANGED <<cfgVars, libVars, loadVars, ws, splitVars, decodeVars, treeVars>>

IdleWords ==
    /\ ws = <<>>
    /\ sentence = <<>>
    /\ wpc = "idle"

\* The most tests an assembly has.
MaxTests == 3

Trait(name, value) == [Name |-> Str(name), Value |-> Str(value)]

Test(name, result, trs) == [Name |-> Str(name), Result |-> result, Time |-> 0, Traits |-> trs]

\* The tests the assemblies are made of: the kinds of name of the package's
\* test, with no trait, one trait, two traits and the same trait twice.
TestPool ==
    { Test("A test", "Pass", <<>>),
      Test("N.Class.TestMethod", "Fail", <<>>),
      Test("N.TestClass+Method+Scenario.Result", "Pass", <<>>),
      Test("N.TestClass+Method+Scenario2.Result", "Pass", <<>>),
      Test("N.TestClass+Method.Result", "Fail", <<Trait("Category", "Unit")>>),
      Test("N.Method+Method.Result", "Pass",
           <<Trait("Category", "Unit"), Trait("Timing", "Slow")>>),
      Test("A test", "Pass", <<Trait("Timing", "Slow"), Trait("Timing", "Slow")>>) }

\* The assemblies: no collection, or two collections that share out a list
\* of tests.
Assemblies ==
    { [Collections |-> <<>>] } \cup
    UNION { { [Collections |-> <<[Tests |-> SubSeq(ts, 1, cut)],
                                 [Tests |-> SubSeq(ts, cut + 1, Len(ts))]>>] : cut \in 0..Len(ts) } :
            ts \in SeqsUpTo(TestPool, MaxTests) }

IdleDecode ==
    /\ t = TestNamed(<<>>)
    /\ tCase = [Name |-> <<>>, groups |-> <<>>, Result |-> "", Time |-> 0]
    /\ dpc = "idle"
    /\ dPanic = FALSE

----------------------------------------------------------------------------
(* The name decoder as a state machine: uniqueTraits makes the TestCase of *)
(* one test.                                                               *)

InitDecode ==
    /\ \E cfg \in DecodeConfigs : NoSplit = cfg[1] /\ NoTransform = cfg[2]
    /\ t \in { TestNamed(name) : name \in DecodeNames }
    /\ tCase = [Name |-> <<>>, groups |-> <<>>, Result |-> "", Time |-> 0]
    /\ dpc = "call"
    /\ dPanic = FALSE

DecodeTest ==
    /\ dpc = "call"
    /\ tCase' = newTestCase(NoSplit, t)
    /\ dPanic' = ~(friendlyNameInRange(NoSplit, t) /\ groupsInRange(NoSplit, t))
    /\ dpc' = "done"
    /\ UNCHANGED <<cfgVars, libVars, loadVars, t, splitVars, wordsVars, treeVars>>

IdleTree ==
    /\ assembly = [Collections |-> <<>>]
    /\ testMap = NilMap
    /\ traits = <<>>
    /\ nodes = <<>>
    /\ resultSet = <<>>
    /\ idx = 0
    /\ tcIdx = 0
    /\ cGroup = 0
    /\ gpc = "idle"
    /\ gRet = NilSlice

----------------------------------------------------------------------------
(* groupTests as a state machine: the call with uniqueTraits, a root per   *)
(* trait, a step per TestCase of the trait, the return.                    *)

InitTree ==
    /\ assembly \in Assemblies
    /\ testMap = NilMap
    /\ traits = <<>>
    /\ nodes = <<>>
    /\ resultSet = <<>>
    /\ idx = 0
    /\ tcIdx = 0
    /\ cGroup = 0
    /\ gpc = "call"
    /\ gRet = NilSlice

\* A groupTests that calls uniqueTraits before it asks for tests.
GroupTestsCallTraitsFirst ==
    /\ gpc = "call"
    /\ testMap' = uniqueTraits(NoSplit, assembly).testMap
    /\ traits' \in uniqueTraits(NoSplit, assembly).keys
    /\ IF ~hasTests(assembly)
       THEN /\ gRet' = MakeSlice
            /\ gpc' = "done"
       ELSE /\ gpc' = "trait"
            /\ UNCHANGED gRet
    /\ UNCHANGED <<cfgVars, libVars, loadVars, splitVars, wordsVars, decodeVars,
                   assembly, nodes, resultSet, idx, tcIdx, cGroup>>

\* groupTests up to its loop: an assembly without tests returns at once,
\* make([]*TestGroup, 0), and assembly.testMap stays as it is, nil when it
\* was never made; otherwise uniqueTraits makes the map and traits is one of
\* the slices maps.Keys can return.
GroupTestsCall ==
    /\ gpc = "call"
    /\ IF ~hasTests(assembly)
       THEN /\ gRet' = MakeSlice
            /\ gpc' = "done"
            /\ UNCHANGED <<testMap, traits>>
       ELSE /\ testMap' = uniqueTraits(NoSplit, assembly).testMap
            /\ traits' \in uniqueTraits(NoSplit, assembly).keys
            /\ gpc' = "trait"
            /\ UNCHANGED gRet
    /\ UNCHANGED <<cfgVars, libVars, loadVars, splitVars, wordsVars, decodeVars,
                   assembly, nodes, resultSet, idx, tcIdx, cGroup>>

\* The head of the outer loop's body: the root group of the trait.
NewRoot ==
    /\ gpc = "trait"
    /\ idx < Len(traits)
    /\ nodes' = Append(nodes, [Name |-> traits[idx + 1], Tests |-> <<>>, Groups |-> <<>>])
    /\ cGroup' = Len(nodes) + 1
    /\ resultSet' = Append(resultSet, Len(nodes) + 1)
    /\ tcIdx' = 0
    /\ gpc' = "tests"
    /\ UNCHANGED <<cfgVars, libVars, loadVars, splitVars, wordsVars, decodeVars,
                   assembly, testMap, traits, idx, gRet>>

\* A loop body that attaches only the tests that have no groups.
InsertTestUngroupedOnly ==
    /\ gpc = "tests"
    /\ tcIdx < Len(testMap.m[traits[idx + 1]])
    /\ LET tc == testMap.m[traits[idx + 1]][tcIdx + 1]
           res == insertTest(nodes, cGroup, resultSet[idx + 1], tc)
       IN  /\ nodes' = IF Len(tc.groups) = 0 THEN res.nodes ELSE nodes
           /\ cGroup' = res.cGroup
    /\ tcIdx' = tcIdx + 1
    /\ UNCHANGED <<cfgVars, libVars, loadVars, splitVars, wordsVars, decodeVars,
                   assembly, testMap, traits, resultSet, idx, gpc, gRet>>

\* One iteration of the loop over assembly.testMap[trait].
InsertTest ==
    /\ gpc = "tests"
    /\ tcIdx < Len(testMap.m[traits[idx + 1]])
    /\ LET tc == testMap.m[traits[idx + 1]][tcIdx + 1]
           res == insertTest(nodes, cGroup, resultSet[idx + 1], tc)
       IN  /\ nodes' = res.nodes
           /\ cGroup' = res.cGroup
    /\ tcIdx' = tcIdx + 1
    /\ UNCHANGED <<cfgVars, libVars, loadVars, splitVars, wordsVars, decodeVars,
                   assembly, testMap, traits, resultSet, idx, gpc, gRet>>

\* The loop over assembly.testMap[trait] ends.
EndTrait ==
    /\ gpc = "tests"
    /\ tcIdx = Len(testMap.m[traits[idx + 1]])
    /\ idx' = idx + 1
    /\ gpc' = "trait"
    /\ UNCHANGED <<cfgVars, libVars, loadVars, splitVars, wordsVars, decodeVars,
                   assembly, testMap, traits, nodes, resultSet, tcIdx, cGroup, gRet>>

\* The outer loop ends and resultSet is returned.
GroupTestsReturn ==
    /\ gpc = "trait"
    /\ idx = Len(traits)
    /\ gRet' = [isNil |-> FALSE, elems |-> resultSet]
    /\ gpc' = "done"
    /\ UNCHANGED <<cfgVars, libVars, loadVars, splitVars, wordsVars, decodeVars,
                   assembly, testMap, traits, nodes, resultSet, idx, tcIdx, cGroup>>

----------------------------------------------------------------------------
(* xunit.Load as a state machine: unmarshal, then readResult with, for     *)
(* every assembly, the steps of groupTests, or the return of the error.    *)

\* The most assemblies a document has.
MaxAssemblies == 2

\* An assembly element with its attributes and its collections.
Assembly(fullName, errors, cols) ==
    [FullName |-> fullName, ErrorCount |-> errors, FailedCount |-> 2, PassedCount |-> 3,
     NotRunCount |-> 4, Total |-> 5, RunDate |-> Str("07-10-2023"), RunTime |-> Str("20.53.19"),
     TimeRTF |-> Str("2000-12-01"), Time |-> 0, Collections |-> cols]

\* The assemblies the documents are made of: the one of the package's test
\* that has no collection, one whose only collection has no test, and one
\* with tests.
AsmPool ==
    { Assembly(Str("C") \o <<58, 92>> \o Str("Parent") \o <<92>> \o Str("Sub") \o <<92>> \o Str("App.dll"),
               1, <<>>),
      Assembly(Str("lib.dll"), 0, <<[Tests |-> <<>>]>>),
      Assembly(<<126, 47>> \o Str("parent") \o <<47>> \o Str("sub") \o <<47>> \o Str("app.dll"), 7,
               <<[Tests |-> <<Test("N.TestClass+Method+Scenario.Result", "Pass", <<>>),
                              Test("A test", "Pass", <<Trait("TestCategory", "UnitTest")>>)>>]>>) }

\* The documents: with the attributes of the package's test or with none,
\* and up to MaxAssemblies assemblies.
Docs ==
    { [Computer |-> meta[1], User |-> meta[2], StartRTF |-> meta[3], FinishRTF |-> meta[4],
       Timestamp |-> meta[5], Assemblies |-> asms] :
        meta \in { <<Str("WIN11"), Str("Kevin"), Str("2000-12-01"), Str("2001-12-01"), Str("2001-12-02")>>,
                   <<(<<>>), (<<>>), (<<>>), (<<>>), (<<>>)>> },
        asms \in SeqsUpTo(AsmPool, MaxAssemblies) }

\* The readers Load is given: io.ReadAll fails on them or not, xml.Unmarshal
\* fails on their bytes or not, having decoded what decoded holds.
Readers ==
    { [readErr |-> re, xmlErr |-> xe, decoded |-> doc] :
        re \in {"nil", "read"}, xe \in {"nil", "xml", "EOF"}, doc \in Docs }

IdleLoad ==
    /\ rd = [readErr |-> "nil", xmlErr |-> "nil", decoded |-> ZeroResult]
    /\ data = ZeroResult
    /\ err = "nil"
    /\ testRun = ZeroTestRun
    /\ asmMaps = <<>>
    /\ loadRet = [run |-> ZeroTestRun, err |-> "nil"]
    /\ lpc = "idle"

InitLoad ==
    /\ rd \in Readers
    /\ data = ZeroResult
    /\ err = "nil"
    /\ testRun = ZeroTestRun
    /\ asmMaps = <<>>
    /\ loadRet = [run |-> ZeroTestRun, err |-> "nil"]
    /\ lpc = "call"

\* data, err := unmarshal(rdr)
LoadCall ==
    /\ lpc = "call"
    /\ data' = unmarshal(rd).res
    /\ err' = unmarshal(rd).err
    /\ lpc' = "unmarshalled"
    /\ UNCHANGED <<cfgVars, libVars, splitVars, wordsVars, decodeVars, treeVars,
                   rd, testRun, asmMaps, loadRet>>

\* A Load that returns an error of its own in place of unmarshal's.
LoadErrorWrapped ==
    /\ lpc = "unmarshalled"
    /\ err # "nil"
    /\ loadRet' = [run |-> ZeroTestRun, err |-> "load"]
    /\ lpc' = "done"
    /\ UNCHANGED <<cfgVars, libVars, splitVars, wordsVars, decodeVars, treeVars,
                   rd, data, err, testRun, asmMaps>>

\* if err != nil { return TestRun{}, err }
LoadError ==
    /\ lpc = "unmarshalled"
    /\ err # "nil"
    /\ loadRet' = [run |-> ZeroTestRun, err |-> err]
    /\ lpc' = "done"
    /\ UNCHANGED <<cfgVars, libVars, splitVars, wordsVars, decodeVars, treeVars,
                   rd, data, err, testRun, asmMaps>>

\* The call of readResult, up to its loop.
ReadResultCall ==
    /\ lpc = "unmarshalled"
    /\ err = "nil"
    /\ testRun' = newTestRun(data)
    /\ lpc' = "assemblies"
    /\ UNCHANGED <<cfgVars, libVars, splitVars, wordsVars, decodeVars, treeVars,
                   rd, data, err, asmMaps, loadRet>>

\* An iteration of readResult's loop over r.Assemblies begins: assembly is
\* the loop's copy of the element and assembly.groupTests() is called on it.
ReadAssemblyCall ==
    /\ lpc = "assemblies"
    /\ Len(testRun.Assemblies.elems) < Len(data.Assemblies)
    /\ assembly' = data.Assemblies[Len(testRun.Assemblies.elems) + 1]
    /\ testMap' = NilMap
    /\ traits' = <<>>
    /\ nodes' = <<>>
    /\ resultSet' = <<>>
    /\ idx' = 0
    /\ tcIdx' = 0
    /\ cGroup' = 0
    /\ gRet' = NilSlice
    /\ gpc' = "call"
    /\ lpc' = "groupTests"
    /\ UNCHANGED <<cfgVars, libVars, splitVars, wordsVars, decodeVars,
                   rd, data, err, testRun, asmMaps, loadRet>>

\* The iteration ends: groupTests has returned and the Assembly is appended.
ReadAssemblyAppend ==
    /\ lpc = "groupTests"
    /\ gpc = "done"
    /\ testRun' = [testRun EXCEPT !.Assemblies = AppendSlice(@, newAssembly(assembly, gRet, nodes))]
    /\ asmMaps' = Append(asmMaps, testMap)
    /\ lpc' = "assemblies"
    /\ assembly' = [Collections |-> <<>>]
    /\ testMap' = NilMap
    /\ traits' = <<>>
    /\ nodes' = <<>>
    /\ resultSet' = <<>>
    /\ idx' = 0
    /\ tcIdx' = 0
    /\ cGroup' = 0
    /\ gRet' = NilSlice
    /\ gpc' = "idle"
    /\ UNCHANGED <<cfgVars, libVars, splitVars, wordsVars, decodeVars, rd, data, err, loadRet>>

\* readResult's loop ends: return readResult(data), nil
LoadReturn ==
    /\ lpc = "assemblies"
    /\ Len(testRun.Assemblies.elems) = Len(data.Assemblies)
    /\ loadRet' = [run |-> testRun, err |-> "nil"]
    /\ lpc' = "done"
    /\ UNCHANGED <<cfgVars, libVars, splitVars, wordsVars, decodeVars, treeVars,
                   rd, data, err, testRun, asmMaps>>

----------------------------------------------------------------------------
(* The callers: Split, ToSentence and Load called one after another, in    *)
(* any order and any number of times.                                      *)

\* What the operations are called on, time after time.
CallInputs == { <<>>, Str("HostBuilder"), Str("PDFLoader") }
CallWords == { <<>>, <<Str("Runs"), Str("DBSyncer"), Str("AB")>> }
CallReaders ==
    { [readErr |-> "nil", xmlErr |-> "xml", decoded |-> ZeroResult],
      [readErr |-> "nil", xmlErr |-> "nil",
       decoded |-> [ZeroResult EXCEPT !.Assemblies =
          <<Assembly(Str("app.dll"), 0,
                     <<[Tests |-> <<Test("N.HostBuilderTests+Run.Ok", "Pass", <<>>)>>]>>)>>]] }

\* No call is under way.
Quiet == pc \in {"idle", "done"} /\ wpc \in {"idle", "done"} /\ lpc \in {"idle", "done"}

\* camelcase.Split(v) is called; what the call before left stays where it is.
CallSplit ==
    /\ Quiet
    /\ v' \in CallInputs
    /\ sIdxs' = <<>>
    /\ pc' = "call"
    /\ UNCHANGED <<cfgVars, libVars, vRdr, retVal, wordsVars, decodeVars, treeVars, loadVars>>

\* words.ToSentence(ws) is called.
CallToSentence ==
    /\ Quiet
    /\ ws' \in CallWords
    /\ wpc' = "call"
    /\ UNCHANGED <<cfgVars, libVars, sentence, splitVars, decodeVars, treeVars, loadVars>>

\* xunit.Load(rdr) is called.
CallLoad ==
    /\ Quiet
    /\ rd' \in CallReaders
    /\ asmMaps' = <<>>
    /\ lpc' = "call"
    /\ UNCHANGED <<cfgVars, libVars, splitVars, wordsVars, decodeVars, treeVars,
                   data, err, testRun, loadRet>>

----------------------------------------------------------------------------
(* Package slices: Equal, Contains and ContainsFn on every pair of slices. *)
MaxSliceLen == 2

\* The elements of the slices, and the values searched for.
SliceElems == { Str("Hello"), Str("World"), Str("W") }
WantElems == SliceElems \cup { Str("w") }

\* The slices: nil, and the slices of up to MaxSliceLen elements.
Slices == { NilSlice } \cup { [isNil |-> FALSE, elems |-> e] : e \in SeqsUpTo(SliceElems, MaxSliceLen) }

\* The comparison functions handed to ContainsFn: the has-prefix comparison
\* of the package's test, and equality.
CmpFns ==
    [ HasPrefix |-> [got \in Seq(Nat), want \in Seq(Nat) |-> HasPrefix(got, want)],
      Equals |-> [got \in Seq(Nat), want \in Seq(Nat) |-> got = want] ]

IdleSlices ==
    /\ s1 = NilSlice
    /\ s2 = NilSlice
    /\ sWant = <<>>
    /\ sCmp = "HasPrefix"
    /\ equalRet = <<>>
    /\ containsRet = <<>>
    /\ containsFnRet = <<>>

InitSlices ==
    /\ s1 \in Slices
    /\ s2 \in Slices
    /\ sWant \in WantElems
    /\ sCmp \in DOMAIN CmpFns
    /\ equalRet = <<>>
    /\ containsRet = <<>>
    /\ containsFnRet = <<>>

\* slices.Equal(s1, s2)
EqualCall ==
    /\ equalRet = <<>>
    /\ equalRet' = <<Equal(s1, s2)>>
    /\ UNCHANGED <<cfgVars, splitVars, wordsVars, decodeVars, treeVars, loadVars,
                   assertVars, mainVars, s1, s2, sWant, sCmp, containsRet, containsFnRet>>

\* slices.Contains(s1, sWant)
ContainsCall ==
    /\ containsRet = <<>>
    /\ containsRet' = <<Contains(s1.elems, sWant)>>
    /\ UNCHANGED <<cfgVars, splitVars, wordsVars, decodeVars, treeVars, loadVars,
                   assertVars, mainVars, s1, s2, sWant, sCmp, equalRet, containsFnRet>>

\* slices.ContainsFn(s1, sWant, cmpFn)
ContainsFnCall ==
    /\ containsFnRet = <<>>
    /\ containsFnRet' = <<ContainsFn(s1.elems, sWant, CmpFns[sCmp])>>
    /\ UNCHANGED <<cfgVars, splitVars, wordsVars, decodeVars, treeVars, loadVars,
                   assertVars, mainVars, s1, s2, sWant, sCmp, equalRet, containsRet>>

----------------------------------------------------------------------------
(* Package assert.  A value of type any is "nil" or the text of the value; *)
(* the testing.TB is [fatals, panicked]: the calls of t.Fatalf, each        *)
(* [format, args], and whether the assertion has panicked.                  *)

\* t.Fatalf(format, args...)
Fatalf(tbv, format, fargs) == [tbv EXCEPT !.fatals = Append(@, [format |-> format, args |-> fargs])]

\* func failT(t, got, want, name, msgTemplate, msg...): msg[0] panics when
\* msg is empty and msg[0].(string) when msg[0] is no string.
failT(tbv, got, want, name, msgTemplate, msg) ==
    IF name # ""
    THEN Fatalf(tbv, msgTemplate, <<name, got, want>>)
    ELSE IF Len(msg) = 0 \/ ~msg[1].isString
    THEN [tbv EXCEPT !.panicked = TRUE]
    ELSE Fatalf(tbv, msg[1].v, Tail(msg))

\* The values handed to the assertions, and the slices handed to EqualS.
AnyValues == { "nil", "true", "false" }
AssertSlices ==
    { NilSlice, MakeSlice, [isNil |-> FALSE, elems |-> <<"1">>],
      [isNil |-> FALSE, elems |-> <<"1", "2">>], [isNil |-> FALSE, elems |-> <<"2", "1">>] }

\* The comparison functions handed to EqualFn.
AssertCmpFns ==
    [ Equals |-> [got \in AnyValues, want \in AnyValues |-> got = want],
      Never |-> [got \in AnyValues, want \in AnyValues |-> FALSE] ]

\* The names, and the msg arguments: none, a format, a format and its
\* argument, and a value that is no string.
AssertNames == { "", "ValueOf(true)" }
StringArg(str) == [isString |-> TRUE, v |-> str]
OtherArg(str) == [isString |-> FALSE, v |-> str]
AssertMsgs ==
    { <<>>, <<StringArg("UT Failed.")>>, <<StringArg("UT Failed - got %t."), OtherArg("true")>>,
      <<OtherArg("true")>> }

\* The assertions.
AssertFns == { "Nil", "NotNil", "Equal", "EqualS", "EqualFn" }

IdleAssert ==
    /\ aFn = "Nil"
    /\ aGot = "nil"
    /\ aWant = "nil"
    /\ aCmp = "Equals"
    /\ aName = ""
    /\ aMsg = <<>>
    /\ tb = [fatals |-> <<>>, panicked |-> FALSE]
    /\ apc = "idle"

InitAssert ==
    /\ aFn \in AssertFns
    /\ IF aFn = "EqualS"
       THEN aGot \in AssertSlices /\ aWant \in AssertSlices
       ELSE aGot \in AnyValues /\ aWant \in (IF aFn \in {"Nil", "NotNil"} THEN {"nil"} ELSE AnyValues)
    /\ aCmp \in (IF aFn = "EqualFn" THEN DOMAIN AssertCmpFns ELSE {"Equals"})
    /\ aName \in AssertNames
    /\ aMsg \in AssertMsgs
    /\ tb = [fatals |-> <<>>, panicked |-> FALSE]
    /\ apc = "call"

\* func Nil(t, got, name, msg...)
AssertNil ==
    /\ apc = "call"
    /\ aFn = "Nil"
    /\ tb' = IF aGot # "nil" THEN failT(tb, aGot, "nil", aName, "%s = %v, want %v", aMsg) ELSE tb
    /\ apc' = "done"
    /\ UNCHANGED <<cfgVars, splitVars, wordsVars, decodeVars, treeVars, loadVars,
                   slicesVars, mainVars, aFn, aGot, aWant, aCmp, aName, aMsg>>

\* func NotNil(t, got, name, msg...)
AssertNotNil ==
    /\ apc = "call"
    /\ aFn = "NotNil"
    /\ tb' = IF aGot = "nil" THEN failT(tb, aGot, "NOT <nil>", aName, "%s = %v, want %s", aMsg) ELSE tb
    /\ apc' = "done"
    /\ UNCHANGED <<cfgVars, splitVars, wordsVars, decodeVars, treeVars, loadVars,
                   slicesVars, mainVars, aFn, aGot, aWant, aCmp, aName, aMsg>>

\* func Equal(t, got, want, name, msg...)
AssertEqual ==
    /\ apc = "call"
    /\ aFn = "Equal"
    /\ tb' = IF aGot # aWant THEN failT(tb, aGot, aWant, aName, "%s = %v, want %v", aMsg) ELSE tb
    /\ apc' = "done"
    /\ UNCHANGED <<cfgVars, splitVars, wordsVars, decodeVars, treeVars, loadVars,
                   slicesVars, mainVars, aFn, aGot, aWant, aCmp, aName, aMsg>>

\* func EqualS(t, got, want, name, msg...)
AssertEqualS ==
    /\ apc = "call"
    /\ aFn = "EqualS"
    /\ tb' = IF ~Equal(aGot, aWant) THEN failT(tb, aGot, aWant, aName, "%s = %v != %v", aMsg) ELSE tb
    /\ apc' = "done"
    /\ UNCHANGED <<cfgVars, splitVars, wordsVars, decodeVars, treeVars, loadVars,
                   slicesVars, mainVars, aFn, aGot, aWant, aCmp, aName, aMsg>>

\* func EqualFn(t, got, want, cmpFn, name, msg...)
AssertEqualFn ==
    /\ apc = "call"
    /\ aFn = "EqualFn"
    /\ tb' = IF ~AssertCmpFns[aCmp][aGot, aWant]
             THEN failT(tb, aGot, aWant, aName, "%s = %v, want %v", aMsg) ELSE tb
    /\ apc' = "done"
    /\ UNCHANGED <<cfgVars, splitVars, wordsVars, decodeVars, treeVars, loadVars,
                   slicesVars, mainVars, aFn, aGot, aWant, aCmp, aName, aMsg>>

----------------------------------------------------------------------------
(* Package main.  What main prints is a sequence of blocks: the header,   *)
(* the usage failure, a failure message [kind, err] and the summary of a   *)
(* log file with its assemblies.                                           *)
MaxArgs == 4

\* The loop of FindNamed from index idx on; result is the slice so far.
RECURSIVE findNamedLoop(_, _, _, _)
findNamedLoop(argv, key, i, result) ==
    IF i >= Len(argv)
    THEN IF Len(result) = 0
         THEN [result |-> result, err |-> "not found"]
         ELSE [result |-> result, err |-> "nil"]
    ELSE IF argv[i + 1] = key /\ i >= Len(argv) - 1
    THEN [result |-> result, err |-> "no value"]
    ELSE IF argv[i + 1] = key /\ Len(argv) >= i
    THEN findNamedLoop(argv, key, i + 1, Append(result, argv[i + 2]))
    ELSE findNamedLoop(argv, key, i + 1, result)

\* A FindNamed that returns the value of the first occurrence only.
FindNamedFirst(argv, key) ==
    LET r == findNamedLoop(argv, key, 0, <<>>)
    IN  [r EXCEPT !.result = IF Len(@) > 1 THEN <<@[1]>> ELSE @]

\* func FindNamed(key string) ([]string, error), on os.Args[1:] = argv.
FindNamed(argv, key) == findNamedLoop(argv, key, 0, <<>>)

\* The command-line arguments: the key, and the names of three files.
LogFileKey == "--logFile"
ArgPool == { LogFileKey, "good.xml", "missing.xml", "bad.xml" }
ArgLists == SeqsUpTo(ArgPool, MaxArgs)

\* The document of good.xml: two assemblies, one of them with tests.
GoodDoc ==
    [Computer |-> Str("WIN11"), User |-> Str("Kevin"), StartRTF |-> <<>>, FinishRTF |-> <<>>,
     Timestamp |-> Str("2001-12-02"),
     Assemblies |-> << CHOOSE a \in AsmPool : a.ErrorCount = 0,
                      CHOOSE a \in AsmPool : a.ErrorCount = 7 >>]

\* os.Open(name): good.xml holds GoodDoc, bad.xml bytes xml.Unmarshal
\* fails on and missing.xml does not exist; os.Open then returns a nil
\* *os.File, whose Read fails.
Open(name) ==
    CASE name = "good.xml" ->
           [err |-> "nil", rdr |-> [readErr |-> "nil", xmlErr |-> "nil", decoded |-> GoodDoc]]
      [] name = "bad.xml" ->
           [err |-> "nil", rdr |-> [readErr |-> "nil", xmlErr |-> "xml", decoded |-> ZeroResult]]
      [] OTHER ->
           [err |-> "open", rdr |-> [readErr |-> "invalid", xmlErr |-> "nil", decoded |-> ZeroResult]]

\* The summary block main prints of a log file and its TestRun; an empty
\* field is a line that is not printed.
Summary(logFile, tRun) ==
    [kind |-> "summary", source |-> logFile, amount |-> Len(tRun.Assemblies.elems),
     computer |-> tRun.Computer, user |-> tRun.User, startTime |-> tRun.StartTimeRTF,
     endTime |-> IF tRun.EndTimeRTF # <<>> THEN tRun.EndTimeRTF ELSE tRun.Timestamp,
     assemblies |-> tRun.Assemblies.elems]

IdleMain ==
    /\ args = <<>>
    /\ lFiles = NilSlice
    /\ fnErr = "nil"
    /\ fIdx = 0
    /\ openErr = "nil"
    /\ stdout = <<>>
    /\ mpc = "idle"

InitMain ==
    /\ args \in ArgLists
    /\ lFiles = NilSlice
    /\ fnErr = "nil"
    /\ fIdx = 0
    /\ openErr = "nil"
    /\ stdout = <<>>
    /\ mpc = "call"

\* main up to its loop: the configuration, the header and FindNamed.
MainCall ==
    /\ mpc = "call"
    /\ NoSplit' = MainNoSplit
    /\ NoTransform' = MainNoTransform
    /\ stdout' = Append(stdout, [kind |-> "header"])
    /\ lFiles' = [isNil |-> FALSE, elems |-> FindNamed(args, LogFileKey).result]
    /\ fnErr' = FindNamed(args, LogFileKey).err
    /\ mpc' = "parsed"
    /\ UNCHANGED <<splitVars, wordsVars, decodeVars, treeVars, loadVars, slicesVars,
                   assertVars, args, fIdx, openErr>>

\* if err != nil: the usage failure and os.Exit(0).
MainUsage ==
    /\ mpc = "parsed"
    /\ fnErr # "nil"
    /\ stdout' = Append(stdout, [kind |-> "usage"])
    /\ mpc' = "exit"
    /\ UNCHANGED <<cfgVars, splitVars, wordsVars, decodeVars, treeVars, loadVars, slicesVars,
                   assertVars, args, lFiles, fnErr, fIdx, openErr>>

\* A loop that goes on to the next file when os.Open fails.
MainOpenContinue ==
    /\ mpc = "parsed"
    /\ fnErr = "nil"
    /\ fIdx < Len(lFiles.elems)
    /\ LET opened == Open(lFiles.elems[fIdx + 1])
       IN  IF opened.err # "nil"
           THEN /\ openErr' = opened.err
                /\ stdout' = Append(stdout, [kind |-> "failed", err |-> opened.err])
                /\ fIdx' = fIdx + 1
                /\ UNCHANGED <<rd, asmMaps, lpc, mpc>>
           ELSE /\ openErr' = opened.err
                /\ rd' = opened.rdr
                /\ asmMaps' = <<>>
                /\ lpc' = "call"
                /\ mpc' = "load"
                /\ UNCHANGED <<stdout, fIdx>>
    /\ UNCHANGED <<cfgVars, splitVars, wordsVars, decodeVars, treeVars, slicesVars,
                   assertVars, data, err, testRun, loadRet, args, lFiles, fnErr>>

\* An iteration of the loop over lFiles begins: os.Open, its failure
\* message, and the call of xunit.Load on what os.Open returned.
MainOpen ==
    /\ mpc = "parsed"
    /\ fnErr = "nil"
    /\ fIdx < Len(lFiles.elems)
    /\ LET opened == Open(lFiles.elems[fIdx + 1])
       IN  /\ openErr' = opened.err
           /\ stdout' = IF opened.err # "nil"
                        THEN Append(stdout, [kind |-> "failed", err |-> opened.err])
                        ELSE stdout
           /\ rd' = opened.rdr
    /\ asmMaps' = <<>>
    /\ lpc' = "call"
    /\ mpc' = "load"
    /\ UNCHANGED <<cfgVars, splitVars, wordsVars, decodeVars, treeVars, slicesVars,
                   assertVars, data, err, testRun, loadRet, args, lFiles, fnErr, fIdx>>

\* Load has returned: its failure message and the summary of the file.
MainPrint ==
    /\ mpc = "load"
    /\ lpc = "done"
    /\ stdout' = (IF loadRet.err # "nil"
                  THEN Append(stdout, [kind |-> "failed", err |-> loadRet.err])
                  ELSE stdout)
                 \o <<Summary(lFiles.elems[fIdx + 1], loadRet.run)>>
    /\ fIdx' = fIdx + 1
    /\ lpc' = "idle"
    /\ mpc' = "parsed"
    /\ UNCHANGED <<cfgVars, splitVars, wordsVars, decodeVars, treeVars, slicesVars,
                   assertVars, rd, data, err, testRun, asmMaps, loadRet,
                   args, lFiles, fnErr, openErr>>

\* The loop has gone through lFiles: main returns.
MainReturn ==
    /\ mpc = "parsed"
    /\ fnErr = "nil"
    /\ fIdx = Len(lFiles.elems)
    /\ mpc' = "done"
    /\ UNCHANGED <<cfgVars, splitVars, wordsVars, decodeVars, treeVars, loadVars, slicesVars,
                   assertVars, args, lFiles, fnErr, fIdx, openErr, stdout>>

IdleLib == IdleSlices /\ IdleAssert /\ IdleMain

----------------------------------------------------------------------------
(* The specifications.                                                     *)

\* Split on every input under every configuration of NoSplit.
SplitInit == InitSplit /\ IdleWords /\ IdleDecode /\ IdleTree /\ IdleLoad /\ IdleLib /\ NoTransform = <<>>
SplitNext == SplitCall \/ SplitReadWord \/ SplitReturn
SpecSplit == SplitInit /\ [][SplitNext]_vars

\* ToSentence on every list of words under every configuration of NoTransform.
WordsInit == InitWords /\ IdleSplit /\ IdleDecode /\ IdleTree /\ IdleLoad /\ IdleLib /\ NoSplit = <<>>
WordsNext == ToSentenceCall
SpecWords == WordsInit /\ [][WordsNext]_vars

\* The name decoder on every test name under every configuration.
DecodeInit == InitDecode /\ IdleSplit /\ IdleWords /\ IdleTree /\ IdleLoad /\ IdleLib
DecodeNext == DecodeTest
SpecDecode == DecodeInit /\ [][DecodeNext]_vars

\* groupTests on every assembly, under main's configuration.
Init ==
    /\ NoSplit = MainNoSplit
    /\ NoTransform = MainNoTransform
    /\ InitTree
    /\ IdleSplit
    /\ IdleWords
    /\ IdleDecode
    /\ IdleLoad
    /\ IdleLib
Next == GroupTestsCall \/ NewRoot \/ InsertTest \/ EndTrait \/ GroupTestsReturn
Spec == Init /\ [][Next]_vars

\* Load on every reader, under main's configuration.
LoadInit ==
    /\ NoSplit = MainNoSplit
    /\ NoTransform = MainNoTransform
    /\ InitLoad
    /\ IdleSplit
    /\ IdleWords
    /\ IdleDecode
    /\ IdleTree
    /\ IdleLib
LoadNext ==
    \/ LoadCall \/ LoadError \/ ReadResultCall \/ ReadAssemblyCall
    \/ GroupTestsCall \/ NewRoot \/ InsertTest \/ EndTrait \/ GroupTestsReturn
    \/ ReadAssemblyAppend \/ LoadReturn
SpecLoad == LoadInit /\ [][LoadNext]_vars

\* Split, ToSentence and Load called one after another under main's
\* configuration.
CallsInit ==
    /\ NoSplit = MainNoSplit
    /\ NoTransform = MainNoTransform
    /\ IdleSplit
    /\ IdleWords
    /\ IdleDecode
    /\ IdleTree
    /\ IdleLoad
    /\ IdleLib
CallsNext ==
    \/ CallSplit \/ SplitCall \/ SplitReadWord \/ SplitReturn
    \/ CallToSentence \/ ToSentenceCall
    \/ CallLoad \/ LoadCall \/ LoadError \/ ReadResultCall \/ ReadAssemblyCall
    \/ GroupTestsCall \/ NewRoot \/ InsertTest \/ EndTrait \/ GroupTestsReturn
    \/ ReadAssemblyAppend \/ LoadReturn
SpecCalls == CallsInit /\ [][CallsNext]_vars

\* Equal, Contains and ContainsFn on every pair of slices.
SlicesInit ==
    /\ NoSplit = <<>>
    /\ NoTransform = <<>>
    /\ InitSlices
    /\ IdleSplit
    /\ IdleWords
    /\ IdleDecode
    /\ IdleTree
    /\ IdleLoad
    /\ IdleAssert
    /\ IdleMain
SlicesNext == EqualCall \/ ContainsCall \/ ContainsFnCall
SpecSlices == SlicesInit /\ [][SlicesNext]_vars

\* Each assertion on every got, want, name and msg.
AssertInit ==
    /\ NoSplit = <<>>
    /\ NoTransform = <<>>
    /\ InitAssert
    /\ IdleSplit
    /\ IdleWords
    /\ IdleDecode
    /\ IdleTree
    /\ IdleLoad
    /\ IdleSlices
    /\ IdleMain
AssertNext == AssertNil \/ AssertNotNil \/ AssertEqual \/ AssertEqualS \/ AssertEqualFn
SpecAssert == AssertInit /\ [][AssertNext]_vars

\* main on every list of command-line arguments.
MainInit ==
    /\ NoSplit = <<>>
    /\ NoTransform = <<>>
    /\ InitMain
    /\ IdleSplit
    /\ IdleWords
    /\ IdleDecode
    /\ IdleTree
    /\ IdleLoad
    /\ IdleSlices
    /\ IdleAssert
MainNext ==
    \/ MainCall \/ MainUsage \/ MainOpen \/ MainPrint \/ MainReturn
    \/ LoadCall \/ LoadError \/ ReadResultCall \/ ReadAssemblyCall
    \/ GroupTestsCall \/ NewRoot \/ InsertTest \/ EndTrait \/ GroupTestsReturn
    \/ ReadAssemblyAppend \/ LoadReturn
SpecMain == MainInit /\ [][MainNext]_vars

----------------------------------------------------------------------------
(* The claims about camelcase.Split, checked under SpecSplit.              *)

\* The 0-based positions at which a segment other than the first begins.
Boundaries(segs) == { Len(Concat(SubSeq(segs, 1, k))) : k \in 1..(Len(segs) - 1) }

\* The 0-based positions at which lit occurs in s.
Occurrences(lit, s) ==
    { o \in 0..(Len(s) - Len(lit)) : Slice(s, o, o + Len(lit)) = lit }

\* C1: the segments Split returns, concatenated in order, are its argument;
\* while it scans, the segments read so far are the argument up to the reader.
C1_ConcatIsInput ==
    /\ pc = "done" => Concat(retVal) = v
    /\ pc = "scan" => Concat(retVal) = Slice(v, 0, vRdr.pos)

\* C1's case: a word ended by the one-position back-up, followed by another.
C1_Witness ==
    /\ pc = "done"
    /\ NoSplit = MainNoSplit
    /\ v = Str("XHostBuilderY")
    /\ retVal = <<Str("X"), Str("HostBuilder"), Str("Y")>>

\* C2: no segment begins strictly inside an occurrence of a NoSplit entry.
C2_LiteralNeverSplit ==
    pc = "done" =>
        \A k \in 1..Len(NoSplit) : \A o \in Occurrences(NoSplit[k], v) :
            \A b \in Boundaries(retVal) : ~(o < b /\ b < o + Len(NoSplit[k]))

\* C3: with NoSplit empty and an ASCII argument that begins with an uppercase
\* letter, a segment begins at i > 0 exactly when s[i] is uppercase and either
\* s[i-1] is not, or s[i+1] exists and is not.
C3_BoundaryRule ==
    (/\ pc = "done"
     /\ NoSplit = <<>>
     /\ Len(v) > 0
     /\ \A i \in 1..Len(v) : v[i] < 128
     /\ IsUpper(v[1]))
    => /\ \A i \in 1..(Len(v) - 1) :
            (i \in Boundaries(retVal)) <=>
                (/\ IsUpper(v[i + 1])
                 /\ (~IsUpper(v[i]) \/ (i + 1 < Len(v) /\ ~IsUpper(v[i + 2]))))
       /\ v = Str("FullyQualifiedName")
            => retVal = <<Str("Fully"), Str("Qualified"), Str("Name")>>
       /\ v = Str("PDFLoader") => retVal = <<Str("PDF"), Str("Loader")>>

\* C3's case: an acronym run followed by a word.
C3_Witness ==
    /\ pc = "done"
    /\ NoSplit = <<>>
    /\ v = Str("PDFLoader")
    /\ retVal = <<Str("PDF"), Str("Loader")>>

\* C4: an empty or invalid argument is returned as the only segment, and no
\* reader is constructed or advanced for it.
C4_FailsSoft ==
    (pc = "done" /\ (Len(v) = 0 \/ ~ValidString(v)))
    => /\ retVal = <<v>>
       /\ sIdxs = <<>>
       /\ vRdr = NewRdr(<<>>)

\* C4's case: the invalid input of the package's test.
C4_Witness ==
    /\ pc = "done"
    /\ v = Str("Bad") \o <<226, 226, 161>>
    /\ retVal = <<v>>

----------------------------------------------------------------------------
(* The claims about words.ToSentence, checked under SpecWords.             *)

\* e is the lower-cased w: for an ASCII word, byte by byte.
IsLowerCased(w, e) ==
    IF \A i \in 1..Len(w) : w[i] < 128
    THEN /\ Len(e) = Len(w)
         /\ \A i \in 1..Len(w) :
                e[i] = IF w[i] \in 65..90 THEN w[i] + 32 ELSE w[i]
    ELSE e = ToLower(w)

\* The 0-based position in the sentence s at which word k begins, when every
\* earlier word is followed by one space.
RECURSIVE WordStart(_, _, _)
WordStart(noTransform, words, k) ==
    IF k = 1 THEN 0
    ELSE LET prev == words[k - 1]
             plen == IF k - 1 = 1 \/ (\E j \in 1..Len(noTransform) : noTransform[j] = prev)
                     THEN Len(prev)
                     ELSE Len(ToLower(prev))
         IN  WordStart(noTransform, words, k - 1) + plen + 1

\* The part of the sentence that renders word k.
Rendered(k) ==
    LET lo == WordStart(NoTransform, ws, k)
        hi == IF k = Len(ws) THEN Len(sentence) ELSE WordStart(NoTransform, ws, k + 1) - 1
    IN  Slice(sentence, lo, hi)

\* C5: the empty list gives the empty string; otherwise the first word is
\* verbatim, a later word is verbatim iff it is an element of NoTransform and
\* lower-cased otherwise, and one space separates consecutive words.
C5_SentenceRule ==
    wpc = "done" =>
        /\ Len(ws) = 0 => sentence = <<>>
        /\ Len(ws) > 0 => Rendered(1) = ws[1]
        /\ \A k \in 2..Len(ws) :
            /\ sentence[WordStart(NoTransform, ws, k)] = 32
            /\ IF \E j \in 1..Len(NoTransform) : NoTransform[j] = ws[k]
               THEN Rendered(k) = ws[k]
               ELSE IsLowerCased(ws[k], Rendered(k))

\* C5's case: after the first word, an element of NoTransform and a word that
\* is only a prefix of one.
C5_Witness ==
    /\ wpc = "done"
    /\ NoTransform = MainNoTransform
    /\ ws = <<Str("A"), Str("DBSyncer"), Str("DBSync")>>
    /\ sentence = Str("A DBSyncer dbsync")

HasSpace(w) == \E i \in 1..Len(w) : w[i] = 32

\* C6 as claimed: for every list of words, the sentence neither begins nor
\* ends with a space, and no two spaces are adjacent.
C6_NoOuterSpace ==
    wpc = "done" =>
        /\ sentence # <<>> => (sentence[1] # 32 /\ sentence[Len(sentence)] # 32)
        /\ \A i \in 1..(Len(sentence) - 1) : ~(sentence[i] = 32 /\ sentence[i + 1] = 32)

\* C6 amended: when no word is empty or contains a space, the sentence neither
\* begins nor ends with a space, no two spaces are adjacent, and it has one
\* space fewer than words; the lists [] and [""] give the empty string.
C6_NoOuterSpaceOfProperWords ==
    wpc = "done" =>
        /\ (\A k \in 1..Len(ws) : ws[k] # <<>> /\ ~HasSpace(ws[k]))
            => /\ sentence # <<>> => (sentence[1] # 32 /\ sentence[Len(sentence)] # 32)
               /\ \A i \in 1..(Len(sentence) - 1) : ~(sentence[i] = 32 /\ sentence[i + 1] = 32)
               /\ Len(ws) > 0 =>
                    Cardinality({i \in 1..Len(sentence) : sentence[i] = 32}) = Len(ws) - 1
        /\ (ws = <<>> \/ ws = << <<>> >>) => sentence = <<>>

\* C6's case: three proper words.
C6_Witness ==
    /\ wpc = "done"
    /\ Len(ws) = 3
    /\ \A k \in 1..Len(ws) : ws[k] # <<>> /\ ~HasSpace(ws[k])
    /\ Cardinality({i \in 1..Len(sentence) : sentence[i] = 32}) = 2

----------------------------------------------------------------------------
(* The claims about the name decoder, checked under SpecDecode.            *)

\* The 0-based positions of the byte c in s.
PositionsOf(c, s) == { o \in 0..(Len(s) - 1) : s[o + 1] = c }

SetMax(S) == CHOOSE x \in S : \A y \in S : x >= y
SetMin(S) == CHOOSE x \in S : \A y \in S : x <= y

\* C7: a name is a display name iff it has a space, nested iff it has no
\* space and has a plus; a display name is its own friendly name and has no
\* group path, and a name with neither space nor plus has no group path.
C7_Classification ==
    dpc = "done" =>
        LET spaces == PositionsOf(32, t.Name)
            pluses == PositionsOf(43, t.Name)
        IN  /\ hasDisplayName(t) <=> spaces # {}
            /\ isNested(t) <=> (spaces = {} /\ pluses # {})
            /\ spaces # {} => (tCase.Name = t.Name /\ tCase.groups = <<>>)
            /\ (spaces = {} /\ pluses = {}) => tCase.groups = <<>>
            /\ (spaces = {} /\ pluses # {}) => tCase.groups # <<>>

\* C7's case: a display name that has a plus and a dot.
C7_Witness ==
    /\ dpc = "done"
    /\ t.Name = Str("A b+c.d")
    /\ tCase.Name = t.Name
    /\ tCase.groups = <<>>

\* C8: for a name without a space, the friendly name is ToSentence, under
\* NoTransform, of Split of the text after the last dot, and every group label
\* is ToSentence, under NoTransform, of Split of its path element.
C8_UsesSentenceFormatter ==
    (dpc = "done" /\ ~hasDisplayName(t)) =>
        /\ tCase.Name =
              ToSentence(NoTransform,
                  Split(NoSplit, Slice(t.Name, LastIndex(t.Name, <<46>>) + 1, Len(t.Name))))
        /\ isNested(t) =>
              tCase.groups =
                  [i \in 1..Len(groupNameParts(t)) |->
                      ToSentence(NoTransform, Split(NoSplit, groupNameParts(t)[i]))]

\* The path elements of a nested name, from the positions of its pluses: the
\* first chunk after its last dot, the chunks between two pluses as they are,
\* the last chunk before its first dot.
PathElements(name) ==
    LET pluses == PositionsOf(43, name)
        dots == PositionsOf(46, name)
        k == Cardinality(pluses)
        first == SetMin(pluses)
        last == SetMax(pluses)
        \* the j-th plus, j in 1..k
        plus(j) == CHOOSE p \in pluses : Cardinality({q \in pluses : q < p}) = j - 1
        before == {d \in dots : d < first}
        after == {d \in dots : d > last}
        lo == IF before = {} THEN 0 ELSE SetMax(before) + 1
        hi == IF after = {} THEN Len(name) ELSE SetMin(after)
    IN  [i \in 1..(k + 1) |->
            IF i = 1 THEN Slice(name, lo, first)
            ELSE IF i = k + 1 THEN Slice(name, last + 1, hi)
            ELSE Slice(name, plus(i - 1) + 1, plus(i))]

\* C9: a nested name with k pluses has a group path of k+1 labels, the
\* readable forms of its path elements in order; the package's nested test
\* has the friendly name "Result" and the path Test class, Method, Scenario,
\* Sub scenario.
C9_GroupPath ==
    (dpc = "done" /\ isNested(t)) =>
        /\ Len(tCase.groups) = Cardinality(PositionsOf(43, t.Name)) + 1
        /\ tCase.groups =
              [i \in 1..Len(PathElements(t.Name)) |-> readable(NoSplit, PathElements(t.Name)[i])]
        /\ t.Name = Str("NS1.Class.SubClass.TestClass+Method+Scenario+SubScenario.Result")
              => /\ tCase.Name = Str("Result")
                 /\ tCase.groups =
                       <<Str("Test class"), Str("Method"), Str("Scenario"), Str("Sub scenario")>>

\* C9's case: the nested test of the package's test.
C9_Witness ==
    /\ dpc = "done"
    /\ t.Name = Str("NS1.Class.SubClass.TestClass+Method+Scenario+SubScenario.Result")
    /\ Len(tCase.groups) = 4

\* C18: the decoder returns on every test name, the empty one, those that
\* begin or end with a dot or a plus, those made of them only and those with
\* plus after plus included: no slice or index of friendlyName, of groups or
\* of the scanner they call is out of range.
C18_DecoderReturns ==
    dpc = "done" => ~dPanic

\* C18's case: a name of two pluses is nested, and its path has three empty
\* labels.
C18_Witness ==
    /\ dpc = "done"
    /\ t.Name = <<43, 43>>
    /\ ~dPanic
    /\ tCase.Name = <<43, 43>>
    /\ tCase.groups = << <<>>, <<>>, <<>> >>

----------------------------------------------------------------------------
(* The claims about the hierarchy builder, checked under Spec.             *)

\* The names of the groups of the group n, in order.
ChildNames(n) == [i \in 1..Len(nodes[n].Groups) |-> nodes[nodes[n].Groups[i]].Name]

\* The only group of the group n.
OnlyChild(n) == nodes[n].Groups[1]

\* C10: in every state of the construction, no two groups of one group (a
\* root or a group below one) have the same name.
C10_DistinctChildren ==
    \A n \in 1..Len(nodes) :
        \A i, j \in 1..Len(nodes[n].Groups) :
            i # j => nodes[nodes[n].Groups[i]].Name # nodes[nodes[n].Groups[j]].Name

\* C10's case: two tests that share Test class, Method and part at Scenario
\* and Scenario2 give one chain Test class, Method with the two below it.
C10_Witness ==
    /\ gpc = "done"
    /\ Len(resultSet) = 1
    /\ nodes[resultSet[1]].Name = <<>>
    /\ ChildNames(resultSet[1]) = <<Str("Test class")>>
    /\ ChildNames(OnlyChild(resultSet[1])) = <<Str("Method")>>
    /\ ChildNames(OnlyChild(OnlyChild(resultSet[1]))) = <<Str("Scenario"), Str("Scenario2")>>
    /\ Len(nodes) = 5

\* The tests of an assembly in document order: collection by collection.
TestsIn(asm) == Concat([c \in 1..Len(asm.Collections) |-> asm.Collections[c].Tests])

\* The tests of the assembly groupTests is called on.
AllTests == TestsIn(assembly)

\* The label of a declared trait, as the claims have it.
LabelOf(tr) == tr.Name \o <<32, 45, 32>> \o tr.Value

\* The labels a test contributes, in order: the empty label when it declares
\* no trait.
LabelsOf(tst) ==
    IF Len(tst.Traits) = 0 THEN << <<>> >>
    ELSE [k \in 1..Len(tst.Traits) |-> LabelOf(tst.Traits[k])]

\* The labels of an assembly, in document order, repeated as they occur.
LabelsIn(asm) == Concat([i \in 1..Len(TestsIn(asm)) |-> LabelsOf(TestsIn(asm)[i])])

\* The labels of the assembly groupTests is called on.
AllLabels == LabelsIn(assembly)

\* The elements of a sequence in the order of their first occurrence.
RECURSIVE FirstSeen(_)
FirstSeen(s) ==
    IF s = <<>> THEN <<>>
    ELSE LET init == SubSeq(s, 1, Len(s) - 1)
             last == s[Len(s)]
         IN  IF \E i \in 1..Len(init) : init[i] = last
             THEN FirstSeen(init)
             ELSE Append(FirstSeen(init), last)

\* The names of the roots groupTests returns, in order.
RootNames == [i \in 1..Len(resultSet) |-> nodes[resultSet[i]].Name]

\* C11: the roots groupTests returns are in the order in which their labels
\* are first seen when the tests are scanned in document order.  The labels
\* reach groupTests through the keys of a Go map, so two assemblies that file
\* the same tests under the same labels, one meeting Timing - Slow first and
\* the other Category - Unit, hand maps.Keys the same map.
C11_RootsFirstSeen ==
    gpc = "done" => RootNames = FirstSeen(AllLabels)

\* The records attached to the group n and to the groups below it.
RECURSIVE RecordsBelow(_)
RecordsBelow(n) ==
    nodes[n].Tests \o
    Concat([i \in 1..Len(nodes[n].Groups) |-> RecordsBelow(nodes[n].Groups[i])])

\* How often x occurs in the sequence s.
CountIn(s, x) == Cardinality({ i \in 1..Len(s) : s[i] = x })

\* The sequences s and r hold the same elements equally often.
SameBag(s, r) ==
    /\ Len(s) = Len(r)
    /\ \A i \in 1..Len(s) : CountIn(s, s[i]) = CountIn(r, s[i])

\* The record of a test: its friendly name, its result and its duration.
RecordOf(tst) ==
    [Name |-> friendlyName(NoSplit, tst), Result |-> tst.Result, Time |-> tst.Time]

\* The records of the tests that declare no trait, in document order.
UntraitedRecords ==
    LET idxs == { i \in 1..Len(AllTests) : Len(AllTests[i].Traits) = 0 }
    IN  Concat([i \in 1..Len(AllTests) |-> IF i \in idxs THEN <<RecordOf(AllTests[i])>> ELSE <<>>])

\* The set of the labels of the assembly.
LabelSet == { AllLabels[i] : i \in 1..Len(AllLabels) }

\* C12: for an assembly with a test, groupTests returns one root per label
\* of the assembly and no two roots of one label; the root of the empty label
\* is there iff a test declares no trait; the records below it are those of
\* the tests without traits, and every other root holds one record per
\* declaration of its label, so none of a test without traits.
C12_RootPerLabel ==
    (gpc = "done" /\ hasTests(assembly)) =>
        /\ { RootNames[i] : i \in 1..Len(RootNames) } = LabelSet
        /\ Len(RootNames) = Cardinality(LabelSet)
        /\ (\E i \in 1..Len(RootNames) : RootNames[i] = <<>>)
              <=> (\E i \in 1..Len(AllTests) : Len(AllTests[i].Traits) = 0)
        /\ \A i \in 1..Len(resultSet) :
              IF RootNames[i] = <<>>
              THEN SameBag(RecordsBelow(resultSet[i]), UntraitedRecords)
              ELSE Len(RecordsBelow(resultSet[i])) = CountIn(AllLabels, RootNames[i])

\* C12's case: tests without traits, one of them nested, and a test with a
\* trait: two roots, the records of the former below the empty one.
C12_Witness ==
    /\ gpc = "done"
    /\ RootNames = << <<>>, Str("Category - Unit") >>
    /\ Len(UntraitedRecords) = 2
    /\ Len(nodes[resultSet[1]].Tests) = 1
    /\ Len(RecordsBelow(resultSet[1])) = 2
    /\ Len(RecordsBelow(resultSet[2])) = 1

\* The records of the tests that declare the label, one per test, in document
\* order.
DeclaringRecords(label) ==
    Concat([i \in 1..Len(AllTests) |->
              IF \E k \in 1..Len(LabelsOf(AllTests[i])) : LabelsOf(AllTests[i])[k] = label
              THEN <<RecordOf(AllTests[i])>>
              ELSE <<>>])

\* C13: a test is attached exactly once under the root of each label it
\* declares and under no other root, with the same name, result and duration
\* everywhere, also when its traits give one label more than once: the
\* records below a root are those of the tests that declare its label, one
\* per test.
C13_OncePerTraitRoot ==
    gpc = "done" =>
        \A i \in 1..Len(resultSet) :
            SameBag(RecordsBelow(resultSet[i]), DeclaringRecords(RootNames[i]))

\* The group reached from the group n of the heap ns along the labels of
\* path from its k-th on; 0 when a label has no group.
RECURSIVE Follow(_, _, _, _)
Follow(ns, n, path, k) ==
    IF k > Len(path) THEN n
    ELSE LET below == { ns[n].Groups[i] : i \in 1..Len(ns[n].Groups) }
             named == { c \in below : ns[c].Name = path[k] }
         IN  IF named = {} THEN 0
             ELSE Follow(ns, CHOOSE c \in named : TRUE, path, k + 1)

\* The records of the group n of the heap ns; none when it is not allocated.
TestsAt(ns, n) == IF n \in 1..Len(ns) THEN ns[n].Tests ELSE <<>>

\* The TestCase the next iteration of the loop over testMap[trait] takes.
NextCase == testMap.m[traits[idx + 1]][tcIdx + 1]

\* The step of groupTests that attaches NextCase.
AttachStep == gpc = "tests" /\ tcIdx' = tcIdx + 1

\* C14: the step that attaches a test under a trait root appends its record
\* to the root's own list when the test's path is empty, and otherwise to
\* the list of the group reached from that root along the labels of the
\* path; the list of no other group, on the path or off it, changes.
C14_AttachAtPathEnd ==
    [][AttachStep =>
        LET root == resultSet[idx + 1]
            target == Follow(nodes', root, NextCase.groups, 1)
            record == [Name |-> NextCase.Name, Result |-> NextCase.Result, Time |-> NextCase.Time]
        IN  /\ target # 0
            /\ Len(NextCase.groups) = 0 => target = root
            /\ \A n \in 1..Len(nodes') :
                  TestsAt(nodes', n) = IF n = target
                                       THEN Append(TestsAt(nodes, n), record)
                                       ELSE TestsAt(nodes, n)]_vars

\* C14's case: under one root a nested test has been attached after another
\* nested test, at the end of its own path from the root, and a test with
\* an empty path after it, to the root.
C14_Witness ==
    /\ gpc = "tests"
    /\ tcIdx = 3
    /\ LET tcs == testMap.m[traits[idx + 1]]
           root == resultSet[idx + 1]
       IN  /\ Len(tcs[1].groups) = 3
           /\ Len(tcs[2].groups) = 3
           /\ tcs[1].groups # tcs[2].groups
           /\ Len(tcs[3].groups) = 0
           /\ Len(TestsAt(nodes, Follow(nodes, root, tcs[1].groups, 1))) = 1
           /\ Len(TestsAt(nodes, Follow(nodes, root, tcs[2].groups, 1))) = 1
           /\ Len(nodes[root].Tests) = 1
           /\ cGroup = root

\* The tests filed under the label, in document order, once per declaration
\* of the label.
Contribs(label) ==
    Concat([i \in 1..Len(AllTests) |->
              Concat([k \in 1..Len(LabelsOf(AllTests[i])) |->
                        IF LabelsOf(AllTests[i])[k] = label THEN <<AllTests[i]>> ELSE <<>>])])

\* The group path of a test.
PathOf(tst) == groups(NoSplit, tst)

\* The sequence p begins the sequence q.
IsPrefix(p, q) == Len(p) <= Len(q) /\ SubSeq(q, 1, Len(p)) = p

\* The tests filed under the label, in document order, each with its group
\* path and its record.
Filed(label) ==
    LET cs == Contribs(label)
    IN  [i \in 1..Len(cs) |-> [path |-> PathOf(cs[i]), rec |-> RecordOf(cs[i])]]

\* The records of the filed tests whose path is p, in document order.
ExpectedTests(fs, p) ==
    Concat([i \in 1..Len(fs) |-> IF fs[i].path = p THEN <<fs[i].rec>> ELSE <<>>])

\* The labels that follow p in the paths of the filed tests, in the order in
\* which they are first met.
ExpectedChildren(fs, p) ==
    FirstSeen(Concat([i \in 1..Len(fs) |->
                        IF Len(fs[i].path) > Len(p) /\ IsPrefix(p, fs[i].path)
                        THEN <<fs[i].path[Len(p) + 1]>>
                        ELSE <<>>]))

\* The group n, reached along p from the root under which the tests fs are
\* filed, and every group below it, hold their records and their groups in
\* the order of the input.
RECURSIVE InOrder(_, _, _)
InOrder(n, fs, p) ==
    /\ nodes[n].Tests = ExpectedTests(fs, p)
    /\ ChildNames(n) = ExpectedChildren(fs, p)
    /\ \A i \in 1..Len(nodes[n].Groups) :
          InOrder(nodes[n].Groups[i], fs, Append(p, ChildNames(n)[i]))

\* C15: no step of groupTests removes or moves a record or a group a group
\* already has: what a group held before the step begins what it holds after
\* it.  When groupTests returns, the groups of every group are in the order in
\* which their labels were first met for that group, and its records in the
\* order of the tests in the input.
C15_OrderKept ==
    [][/\ \A n \in 1..Len(nodes) :
             /\ n <= Len(nodes')
             /\ nodes'[n].Name = nodes[n].Name
             /\ IsPrefix(nodes[n].Tests, nodes'[n].Tests)
             /\ IsPrefix(nodes[n].Groups, nodes'[n].Groups)
       /\ gpc' = "done" =>
             \A i \in 1..Len(resultSet) : InOrder(resultSet[i], Filed(RootNames[i]), <<>>)]_vars

\* C15's case: Scenario2 is met before Scenario, with a test of an empty path
\* in between; the groups of Method are Scenario2, Scenario.
C15_Witness ==
    /\ gpc = "done"
    /\ Len(AllTests) = 3
    /\ Len(resultSet) = 1
    /\ Len(nodes[resultSet[1]].Tests) = 1
    /\ ChildNames(OnlyChild(OnlyChild(resultSet[1]))) = <<Str("Scenario2"), Str("Scenario")>>
    /\ PathOf(AllTests[1]) = <<Str("Test class"), Str("Method"), Str("Scenario2")>>
    /\ PathOf(AllTests[2]) = <<>>

----------------------------------------------------------------------------
(* The claims about xunit.Load, checked under SpecLoad.                    *)

\* The assembly has no test: no collection, or collections without tests.
NoTests(asm) == \A c \in 1..Len(asm.Collections) : asm.Collections[c].Tests = <<>>

\* The bytes of a string.
Bytes(str) == { str[i] : i \in 1..Len(str) }

\* nm is what follows the last slash of full or, when full has no slash, its
\* last backslash; the whole of full when it has neither.
IsFileName(full, nm) ==
    LET sep == IF 47 \in Bytes(full) THEN 47 ELSE 92
    IN  \E k \in 0..Len(full) :
            /\ nm = SubSeq(full, k + 1, Len(full))
            /\ sep \notin Bytes(nm)
            /\ k = 0 => sep \notin Bytes(full)
            /\ k > 0 => full[k] = sep

\* The Assembly out reports the attributes of the assembly asm.
ReportsAttributes(asm, out) ==
    /\ IsFileName(asm.FullName, out.Name)
    /\ out.ErrorCount = asm.ErrorCount
    /\ out.PassedCount = asm.PassedCount
    /\ out.FailedCount = asm.FailedCount
    /\ out.NotRunCount = asm.NotRunCount
    /\ out.TotalCount = asm.Total
    /\ out.RunDate = asm.RunDate
    /\ out.RunTime = asm.RunTime
    /\ out.TimeRTF = asm.TimeRTF
    /\ out.Time = asm.Time

\* C16: of an assembly without tests readResult reports the attributes, with
\* the root list groupTests returned: empty and not nil; no group has been
\* allocated for it, and its trait map is the nil map of the decoded
\* assembly: uniqueTraits, which makes the map, was not called.
C16_EmptyAssembly ==
    \A k \in 1..Len(testRun.Assemblies.elems) :
        LET asm == data.Assemblies[k]
            out == testRun.Assemblies.elems[k]
        IN  NoTests(asm) =>
                /\ out.TestGroups = [isNil |-> FALSE, elems |-> <<>>]
                /\ out.nodes = <<>>
                /\ asmMaps[k] = NilMap
                /\ ReportsAttributes(asm, out)

\* C16's case: Load has returned the run of the assembly without collections
\* of the package's test, and of one whose only collection has no test.
C16_Witness ==
    /\ lpc = "done"
    /\ loadRet.err = "nil"
    /\ Len(loadRet.run.Assemblies.elems) = 2
    /\ data.Assemblies[1].Collections = <<>>
    /\ data.Assemblies[2].Collections = <<[Tests |-> <<>>]>>
    /\ loadRet.run.Assemblies.elems[1].Name = Str("App.dll")
    /\ loadRet.run.Assemblies.elems[1].ErrorCount = 1
    /\ loadRet.run.Assemblies.elems[1].TestGroups = MakeSlice
    /\ loadRet.run.Assemblies.elems[2].Name = Str("lib.dll")
    /\ loadRet.run.Assemblies.elems[2].TestGroups = MakeSlice
    /\ asmMaps = <<NilMap, NilMap>>

\* What has been decoded of the reader: nothing when it could not be read.
Decoded == IF rd.readErr = "nil" THEN rd.decoded ELSE ZeroResult

\* The Assembly out holds the tests of the assembly asm: a root list that is
\* not nil, a root per label, and a record per declaration of a label.
HoldsTests(asm, out) ==
    LET roots == out.TestGroups.elems
        names == { out.nodes[roots[i]].Name : i \in 1..Len(roots) }
        labels == { LabelsIn(asm)[i] : i \in 1..Len(LabelsIn(asm)) }
    IN  /\ ~out.TestGroups.isNil
        /\ names = labels
        /\ Len(roots) = Cardinality(labels)
        /\ Len(Concat([n \in 1..Len(out.nodes) |-> out.nodes[n].Tests])) = Len(LabelsIn(asm))

\* The TestRun run is the conversion of the document doc.
IsConversion(doc, run) ==
    /\ run.Computer = doc.Computer
    /\ run.User = doc.User
    /\ run.StartTimeRTF = doc.StartRTF
    /\ run.EndTimeRTF = doc.FinishRTF
    /\ run.Timestamp = doc.Timestamp
    /\ ~run.Assemblies.isNil
    /\ Len(run.Assemblies.elems) = Len(doc.Assemblies)
    /\ \A k \in 1..Len(doc.Assemblies) :
          /\ ReportsAttributes(doc.Assemblies[k], run.Assemblies.elems[k])
          /\ HoldsTests(doc.Assemblies[k], run.Assemblies.elems[k])

\* C17: when the bytes of the reader cannot be decoded as XML, Load returns
\* an error; whenever it returns an error, the TestRun beside it is the zero
\* value, whatever had been decoded; when it returns no error, the TestRun
\* is the conversion of the decoded document.
C17_ErrorOrConversion ==
    lpc = "done" =>
        /\ (rd.readErr = "nil" /\ rd.xmlErr # "nil") => loadRet.err # "nil"
        /\ loadRet.err # "nil" => loadRet.run = ZeroTestRun
        /\ loadRet.err = "nil" => IsConversion(Decoded, loadRet.run)

\* C17's case: xml.Unmarshal has failed after it had decoded attributes and
\* an assembly, and Load has returned its error with the zero TestRun.
C17_Witness ==
    /\ lpc = "done"
    /\ rd.readErr = "nil"
    /\ rd.xmlErr = "xml"
    /\ rd.decoded.Computer = Str("WIN11")
    /\ Len(rd.decoded.Assemblies) = 1
    /\ loadRet = [run |-> ZeroTestRun, err |-> "xml"]

----------------------------------------------------------------------------
(* The claim about the configuration, checked under SpecCalls.             *)

\* C19: no step of Split, of ToSentence or of Load changes NoSplit or
\* NoTransform, however many calls went before; a Split that scans starts
\* with a reader at position 0 of its own argument, and what it returns is
\* what it returns on that argument alone.
C19_ConfigurationFrame ==
    [][/\ NoSplit' = NoSplit
       /\ NoTransform' = NoTransform
       /\ (pc = "call" /\ pc' = "scan") => (vRdr'.input = v /\ vRdr'.pos = 0)
       /\ (pc # "done" /\ pc' = "done") => retVal' = Split(MainNoSplit, v)
       /\ (wpc # "done" /\ wpc' = "done") => sentence' = ToSentence(MainNoTransform, ws)]_vars

\* C19's case: after a Load and a ToSentence, Split has been called on the
\* empty string after a call that had scanned HostBuilder to its end, and
\* both sets are as main set them.
C19_Witness ==
    /\ lpc = "done"
    /\ Len(loadRet.run.Assemblies.elems) = 1
    /\ wpc = "done"
    /\ sentence = Str("Runs DBSyncer ab")
    /\ pc = "done"
    /\ v = <<>>
    /\ retVal = << <<>> >>
    /\ vRdr.input = Str("HostBuilder")
    /\ vRdr.pos = 11
    /\ NoSplit = <<Str("HostBuilder"), Str("DBSyncer"), Str("DbSynchronizer")>>
    /\ NoTransform = <<Str("DbSynchronizer"), Str("DBSyncer")>>

\* The traits the tests of an assembly declare.
TraitsIn(asm) ==
    UNION { { TestsIn(asm)[i].Traits[j] : j \in 1..Len(TestsIn(asm)[i].Traits) } :
            i \in 1..Len(TestsIn(asm)) }

\* The names of the roots of an Assembly.
RootNamesOf(out) ==
    { out.nodes[out.TestGroups.elems[i]].Name : i \in 1..Len(out.TestGroups.elems) }

\* C20: every trait a test declares has a root group whose name is the name
\* of the trait, space, hyphen, space, the value of the trait, byte for byte;
\* and but for the root of the empty label every root is named so after a
\* declared trait.
C20_TraitLabel ==
    \A k \in 1..Len(testRun.Assemblies.elems) :
        LET asm == data.Assemblies[k]
            out == testRun.Assemblies.elems[k]
        IN  /\ \A tr \in TraitsIn(asm) :
                  (tr.Name \o <<32, 45, 32>> \o tr.Value) \in RootNamesOf(out)
            /\ \A nm \in RootNamesOf(out) \ { <<>> } :
                  \E tr \in TraitsIn(asm) : nm = tr.Name \o <<32, 45, 32>> \o tr.Value

\* C20's case: the trait TestCategory, UnitTest, whose parts the scanner would
\* split, names the root TestCategory - UnitTest.
C20_Witness ==
    /\ lpc = "done"
    /\ Len(loadRet.run.Assemblies.elems) = 1
    /\ RootNamesOf(loadRet.run.Assemblies.elems[1]) = { <<>>, Str("TestCategory - UnitTest") }
    /\ Split(NoSplit, Str("TestCategory")) = <<Str("Test"), Str("Category")>>

----------------------------------------------------------------------------
(* Claims about package slices.                                            *)

\* a and b hold the same elements, each as often, in some order.
Permutation(a, b) ==
    /\ Len(a) = Len(b)
    /\ \A x \in SliceElems : CountIn(a, x) = CountIn(b, x)

\* C21: slices.Equal(s1, s2) is true iff the two slices have the same
\* length and equal elements at every index; a nil slice and an empty slice
\* are equal, slices of different length are never equal, and the same
\* elements in a different order are not equal.
C21_EqualContract ==
    equalRet # <<>> =>
        /\ equalRet[1] = (/\ Len(s1.elems) = Len(s2.elems)
                          /\ \A i \in 1..Len(s1.elems) : s1.elems[i] = s2.elems[i])
        /\ (s1 = NilSlice /\ s2 = MakeSlice) => equalRet[1]
        /\ (s1 = MakeSlice /\ s2 = NilSlice) => equalRet[1]
        /\ Len(s1.elems) # Len(s2.elems) => ~equalRet[1]
        /\ (Permutation(s1.elems, s2.elems) /\ s1.elems # s2.elems) => ~equalRet[1]

\* Equal has returned true on an empty and a nil slice; the model also holds
\* slices of the same elements in another order, on which it returns false.
C21_Witness ==
    /\ equalRet = <<TRUE>>
    /\ s1 = MakeSlice
    /\ s2 = NilSlice
    /\ \E a, b \in Slices : Permutation(a.elems, b.elems) /\ a.elems # b.elems /\ ~Equal(a, b)

\* el starts with w, byte by byte.
StartsWith(el, w) == Len(w) <= Len(el) /\ \A k \in 1..Len(w) : el[k] = w[k]

\* C22: slices.ContainsFn(s, want, cmpFn) is true iff cmpFn(el, want) is
\* true for at least one element el of s, the element being the first
\* argument and want the second (with a has-prefix comparison: some element
\* starts with want); slices.Contains(s, want) is true iff some element
\* equals want; both are false for an empty slice.
C22_ContainsContract ==
    /\ containsFnRet # <<>> =>
        /\ sCmp = "HasPrefix" =>
               containsFnRet[1] = (\E el \in { s1.elems[i] : i \in 1..Len(s1.elems) } : StartsWith(el, sWant))
        /\ sCmp = "Equals" =>
               containsFnRet[1] = (sWant \in { s1.elems[i] : i \in 1..Len(s1.elems) })
        /\ Len(s1.elems) = 0 => ~containsFnRet[1]
    /\ containsRet # <<>> =>
        /\ containsRet[1] = (sWant \in { s1.elems[i] : i \in 1..Len(s1.elems) })
        /\ Len(s1.elems) = 0 => ~containsRet[1]

\* ContainsFn has found, with the has-prefix comparison, an element that
\* starts with want and is longer than it, and Contains has not found want.
C22_Witness ==
    /\ sCmp = "HasPrefix"
    /\ sWant = Str("W")
    /\ s1 = [isNil |-> FALSE, elems |-> <<Str("Hello"), Str("World")>>]
    /\ containsFnRet = <<TRUE>>
    /\ containsRet = <<FALSE>>

----------------------------------------------------------------------------
(* Claims about package assert.                                            *)

\* The comparison of the assertion called fails.
ComparisonFails ==
    CASE aFn = "Nil" -> aGot # "nil"
      [] aFn = "NotNil" -> aGot = "nil"
      [] aFn = "Equal" -> aGot # aWant
      [] aFn = "EqualS" -> aGot.elems # aWant.elems
      [] aFn = "EqualFn" -> ~AssertCmpFns[aCmp][aGot, aWant]

\* The built-in template of the assertion called, and the want it reports.
BuiltInTemplate ==
    CASE aFn = "NotNil" -> "%s = %v, want %s"
      [] aFn = "EqualS" -> "%s = %v != %v"
      [] OTHER -> "%s = %v, want %v"
ReportedWant ==
    CASE aFn = "Nil" -> "nil"
      [] aFn = "NotNil" -> "NOT <nil>"
      [] OTHER -> aWant

\* The one call of t.Fatalf the claim expects of a failed comparison.
ExpectedFatalf ==
    IF aName # ""
    THEN [format |-> BuiltInTemplate, args |-> <<aName, aGot, ReportedWant>>]
    ELSE [format |-> aMsg[1].v, args |-> Tail(aMsg)]

\* C23: each of assert.Nil, NotNil, Equal, EqualS and EqualFn calls
\* t.Fatalf exactly once when its comparison fails and never when it passes,
\* for every combination of name and msg; the message is the built-in
\* template with name, got and want when name is non-empty, and otherwise
\* msg[0] applied to msg[1:].
C23_FatalfOnce ==
    apc = "done" =>
        IF ComparisonFails
        THEN /\ Len(tb.fatals) = 1
             /\ ~tb.panicked
             /\ tb.fatals[1] = ExpectedFatalf
        ELSE tb.fatals = <<>> /\ ~tb.panicked

----------------------------------------------------------------------------
(* Claims about package main.                                              *)

\* The positions of key among the arguments, and the arguments that follow
\* them, in argument order.
OccurrencesOf(key) == { i \in 1..Len(args) : args[i] = key }
RECURSIVE ValuesFrom(_, _)
ValuesFrom(key, i) ==
    IF i >= Len(args) THEN <<>>
    ELSE IF args[i] = key THEN <<args[i + 1]>> \o ValuesFrom(key, i + 1)
    ELSE ValuesFrom(key, i + 1)

\* C24: FindNamed(key) returns a non-nil error if key does not occur among
\* the arguments or if an occurrence of key has no argument after it;
\* otherwise it returns a nil error and, in argument order, the argument
\* that immediately follows each occurrence of key, one per occurrence.
C24_FindNamedContract ==
    mpc # "call" =>
        IF OccurrencesOf(LogFileKey) = {} \/ Len(args) \in OccurrencesOf(LogFileKey)
        THEN fnErr # "nil"
        ELSE /\ fnErr = "nil"
             /\ lFiles.elems = ValuesFrom(LogFileKey, 1)
             /\ Len(lFiles.elems) = Cardinality(OccurrencesOf(LogFileKey))

\* FindNamed has returned two values, one of them the key itself, which
\* follows an occurrence of the key.
C24_Witness ==
    /\ mpc = "parsed"
    /\ args = <<LogFileKey, LogFileKey, "good.xml">>
    /\ fnErr = "nil"
    /\ lFiles.elems = <<LogFileKey, "good.xml">>

----------------------------------------------------------------------------
(* Claims about the scanner's words.                                       *)

\* The uppercase character at position p (0-based) is protected in a word
\* that started at sIdx: the text from sIdx up to it begins an entry of
\* NoSplit.
Protected(sIdx, p) == \E k \in 1..Len(NoSplit) : StartsWith(NoSplit[k], Slice(v, sIdx, p + 1))

\* Where a lowercase-led word that started at sIdx ends by the claim's rule:
\* before the first following uppercase character that is not protected, or
\* at the end of the input.
LowerLedEnd(sIdx) ==
    LET stops == { p \in (sIdx + 1)..(Len(v) - 1) : IsUpper(v[p + 1]) /\ ~Protected(sIdx, p) }
    IN  IF stops = {} THEN Len(v) ELSE SetMin(stops)

\* C25: the scanner classifies each word by its first character, and a
\* lowercase-led word ends immediately before the first following uppercase
\* character that is not protected by NoSplit; with NoSplit empty, a word
\* that starts with a lowercase letter holds no uppercase letter.
C25_LowerLedWord ==
    (pc = "done" /\ Len(v) > 0 /\ ValidString(v)) =>
        \A k \in 1..Len(retVal) :
            ~IsUpper(v[sIdxs[k] + 1]) =>
                /\ sIdxs[k] + Len(retVal[k]) = LowerLedEnd(sIdxs[k])
                /\ NoSplit = <<>> => \A j \in 1..Len(retVal[k]) : ~IsUpper(retVal[k][j])

\* C26: the scanner never errors: for every non-empty valid input and every
\* NoSplit, in every state of the scanner 0 <= pos <= len(input), and no read
\* (input[pos], input[sIdx:pos+1]) is out of the bounds of the input, the
\* states after unreadRune included.
C26_ScannerInRange ==
    (pc \in {"scan", "done"} /\ Len(v) > 0 /\ ValidString(v)) =>
        /\ vRdr.input = v
        /\ 0 <= vRdr.pos
        /\ vRdr.pos <= Len(vRdr.input)
        /\ ~vRdr.panicked
        /\ \A k \in 1..Len(sIdxs) :
              /\ IndexInRange(v, sIdxs[k])
              /\ SliceInRange(v, sIdxs[k], sIdxs[k] + Len(retVal[k]))

\* The scanner has backed up one position at the end of an uppercase run and
\* goes on in the middle of the input, under a NoSplit that is consulted.
C26_Witness ==
    /\ pc = "scan"
    /\ NoSplit # <<>>
    /\ v = Str("AABb")
    /\ sIdxs = <<0>>
    /\ retVal = <<Str("AA")>>
    /\ vRdr.pos = 2
    /\ vRdr.rdRune = 66

\* C27: scanner progress: for every non-empty valid input and every NoSplit,
\* each readWord call returns a non-empty segment and leaves pos strictly
\* greater than the position where the word started, so Split ends after at
\* most len(input) words.
C27_ScannerProgress ==
    (pc \in {"scan", "done"} /\ Len(v) > 0 /\ ValidString(v)) =>
        /\ Len(retVal) = Len(sIdxs)
        /\ Len(retVal) <= Len(v)
        /\ \A k \in 1..Len(retVal) :
              /\ Len(retVal[k]) > 0
              /\ (IF k < Len(retVal) THEN sIdxs[k + 1] ELSE vRdr.pos) > sIdxs[k]
        /\ pc = "done" => vRdr.pos = Len(v) /\ Len(retVal) >= 1

\* Split has ended on an input whose first word is what the back-up left of
\* a run of two uppercase letters: one character.
C27_Witness ==
    /\ pc = "done"
    /\ v = Str("AAb")
    /\ sIdxs = <<0, 1>>
    /\ retVal = <<Str("A"), Str("Ab")>>

----------------------------------------------------------------------------
(* Claims about the conservation of tests.                                 *)

\* The entries the trait map holds for a label, as the records groupTests
\* attaches: name, result and duration.
MapRecords(label) ==
    [k \in 1..Len(testMap.m[label]) |->
        [Name |-> testMap.m[label][k].Name, Result |-> testMap.m[label][k].Result,
         Time |-> testMap.m[label][k].Time]]

\* C28: conservation of tests: for every trait root, the records in its
\* tree (its own list and those of all its descendants) are as many as the
\* entries of the trait map for its label, one per test and declared
\* occurrence of the label, or one per test without traits for the empty
\* label; the merge loses no record and duplicates none.
C28_Conservation ==
    (gpc = "done" /\ hasTests(assembly)) =>
        /\ Len(resultSet) = Cardinality(DOMAIN testMap.m)
        /\ \A i \in 1..Len(resultSet) :
              LET label == nodes[resultSet[i]].Name
              IN  /\ label \in DOMAIN testMap.m
                  /\ Len(RecordsBelow(resultSet[i])) = Len(testMap.m[label])
                  /\ SameBag(RecordsBelow(resultSet[i]), MapRecords(label))
                  /\ Len(testMap.m[label]) = CountIn(AllLabels, label)

\* groupTests has returned a root that holds records in descendant groups
\* and a root whose label one test declares twice.
C28_Witness ==
    /\ gpc = "done"
    /\ \E i \in 1..Len(resultSet) :
          /\ Len(RecordsBelow(resultSet[i])) >= 2
          /\ Len(nodes[resultSet[i]].Tests) < Len(RecordsBelow(resultSet[i]))
    /\ \E i \in 1..Len(resultSet), j \in 1..Len(AllTests) :
          /\ CountIn(LabelsOf(AllTests[j]), nodes[resultSet[i]].Name) = 2
          /\ Len(RecordsBelow(resultSet[i])) >= 2

----------------------------------------------------------------------------
(* Claims about the errors of Load.                                        *)

\* A TestRun without attributes and without assemblies.
EmptyTestRun(run) ==
    /\ run.Computer = <<>> /\ run.User = <<>> /\ run.StartTimeRTF = <<>>
    /\ run.EndTimeRTF = <<>> /\ run.Timestamp = <<>>
    /\ Len(run.Assemblies.elems) = 0

\* C29: the only error Load surfaces is the XML decode error, unchanged:
\* Load returns a non-nil error iff xml.Unmarshal of the bytes read fails; a
\* failure of the reader itself (io.ReadAll) is not surfaced and gives a nil
\* error with an empty TestRun.
C29_OnlyDecodeError ==
    lpc = "done" =>
        /\ loadRet.err # "nil" <=> (rd.readErr = "nil" /\ rd.xmlErr # "nil")
        /\ loadRet.err # "nil" => loadRet.err = rd.xmlErr
        /\ rd.readErr # "nil" => (loadRet.err = "nil" /\ EmptyTestRun(loadRet.run))

\* Load has returned no error and an empty TestRun for a reader that failed
\* (its bytes would not have decoded either); the model also holds a reader
\* whose decode error Load returns.
C29_Witness ==
    /\ lpc = "done"
    /\ rd.readErr = "read"
    /\ rd.xmlErr = "EOF"
    /\ Len(rd.decoded.Assemblies) > 0
    /\ loadRet.err = "nil"
    /\ EmptyTestRun(loadRet.run)

\* What a printed block shows of itself: its kind, and the error of a
\* failure message or the source and the amount of assemblies of a summary.
ShapeOf(b) ==
    CASE b.kind = "failed" -> <<"failed", b.err>>
      [] b.kind = "summary" -> <<"summary", b.source, b.amount>>
      [] OTHER -> <<b.kind>>
Shapes(blocks) == [i \in 1..Len(blocks) |-> ShapeOf(blocks[i])]

\* What the claim expects main to print of one log file: nothing but the
\* summary for good.xml with its two assemblies, the decode failure and a
\* summary with 0 assemblies for bad.xml, and the failure to open and a
\* summary with 0 assemblies for a file that does not exist.
ExpectedOf(file) ==
    CASE file = "good.xml" -> << <<"summary", file, 2>> >>
      [] file = "bad.xml" -> << <<"failed", "xml">>, <<"summary", file, 0>> >>
      [] OTHER -> << <<"failed", "open">>, <<"summary", file, 0>> >>
ExpectedOutput(files, n) == << <<"header">> >> \o Concat([i \in 1..n |-> ExpectedOf(files[i])])

\* C30: main processes the log files in the order of their --logFile
\* arguments, and a failure to open or to decode a file does not stop the
\* run: after the failure message it prints the summary of the file, with 0
\* assemblies, and goes on with every remaining file; when FindNamed finds no
\* value it prints the usage failure and exits without processing a file.
C30_MainRun ==
    /\ (mpc \in {"parsed", "done"} /\ fnErr = "nil") =>
          /\ lFiles.elems = ValuesFrom(LogFileKey, 1)
          /\ Shapes(stdout) = ExpectedOutput(lFiles.elems, fIdx)
    /\ mpc = "load" => Len(stdout) >= Len(ExpectedOutput(lFiles.elems, fIdx))
    /\ mpc = "done" => (fnErr = "nil" /\ fIdx = Len(lFiles.elems))
    /\ (mpc # "call" /\ fnErr # "nil") =>
          /\ mpc \in {"parsed", "exit"}
          /\ fIdx = 0
          /\ lpc = "idle"
          /\ Shapes(stdout) = IF mpc = "exit" THEN << <<"header">>, <<"usage">> >>
                               ELSE << <<"header">> >>
    /\ mpc = "exit" => fnErr # "nil"

\* main has returned after a file that does not exist and a file that does
\* not decode, in this order, with the summary of each.
C30_Witness ==
    /\ mpc = "done"
    /\ args = <<LogFileKey, "missing.xml", LogFileKey, "bad.xml">>
    /\ Shapes(stdout) = << <<"header">>, <<"failed", "open">>, <<"summary", "missing.xml", 0>>,
                           <<"failed", "xml">>, <<"summary", "bad.xml", 0>> >>

====
